---- MODULE Spec2Model ----
(***************************************************************************)
(* A model of the MCU practice tool's expression subsystem:                *)
(*   - the symbol table            (data/atmega2560: allNamedBits)         *)
(*   - the tokenizer, the parser and evaluate/checkAnswer                  *)
(*                                 (src/engine/evaluator.ts)               *)
(*   - the partial expression analyzer (expression display module)         *)
(*                                                                         *)
(* Text is a TLA+ string; s[i] of the source is Ch(s, i) here (0-based,    *)
(* "" past the end, as JavaScript's undefined never equals a character).   *)
(* A nullable number (number | null, number | undefined) is <<>> or <<n>>. *)
(***************************************************************************)
EXTENDS Integers, Sequences, FiniteSets, TLC

VARIABLES
    pc,          \* "ready", or the call that has just returned
    code,        \* the text handed to evaluate / checkAnswer / parseExpression
    args,        \* how the text was put together (the parameters of the input)
    seeded,      \* the register mapping evaluate was called with
    question,    \* [register, initialValue, expectedValue] checkAnswer was called with
    result,      \* what evaluate returned (EvalResult)
    check,       \* what checkAnswer returned
    breakdown,   \* what the analyzer's parseExpression returned
    pieces,      \* what splitOnOperator returned
    stats,       \* the Stats object recordAnswer updates
    answer,      \* what recordAnswer returned (AnswerResult)
    clock,       \* the date and time new Date() and Date.now() read
    app,         \* the page state (AppState), stats apart
    page,        \* the keydown listeners on document and window.__mcuKeyHandler
    observed     \* what has happened to the current question (history)

vars == <<pc, code, args, seeded, question, result, check, breakdown, pieces, stats,
         answer, clock, app, page, observed>>

(***************************************************************************)
(* JavaScript values and 32-bit integer operators, restricted to what the  *)
(* evaluator can produce: bytes, and the objects a lookup on a plain       *)
(* object inherits from Object.prototype.                                  *)
(***************************************************************************)

\* 0xFF, the mask of every operation.
ByteMask == 255

Byte == 0..ByteMask

\* A value that is not a number: what allNamedBits["constructor"] or
\* states["toString"] yields, since a plain object inherits these members.
InheritedObject == -1

\* The member names every plain object inherits from Object.prototype.
ObjectPrototypeKeys ==
    {"constructor", "toString", "toLocaleString", "valueOf", "hasOwnProperty",
     "isPrototypeOf", "propertyIsEnumerable", "__proto__", "__defineGetter__",
     "__defineSetter__", "__lookupGetter__", "__lookupSetter__"}

Null == <<>>

Some(v) == <<v>>

\* ToInt32 of a value: a function or object converts to NaN, and NaN to 0.
ToInt32(v) == IF v = InheritedObject THEN 0 ELSE v

RECURSIVE BitAnd(_, _)
BitAnd(a, b) ==
    IF a = 0 \/ b = 0 THEN 0
    ELSE (a % 2) * (b % 2) + 2 * BitAnd(a \div 2, b \div 2)

RECURSIVE BitOr(_, _)
BitOr(a, b) ==
    IF a = 0 THEN b
    ELSE IF b = 0 THEN a
    ELSE (IF a % 2 = 1 \/ b % 2 = 1 THEN 1 ELSE 0) + 2 * BitOr(a \div 2, b \div 2)

RECURSIVE BitXor(_, _)
BitXor(a, b) ==
    IF a = 0 THEN b
    ELSE IF b = 0 THEN a
    ELSE ((a + b) % 2) + 2 * BitXor(a \div 2, b \div 2)

\* x & 0xFF for an integer x (two's complement: the low 8 bits).
Mask8(x) == x % (ByteMask + 1)

\* (a | b) & 0xFF, (a & b) & 0xFF, (a ^ b) & 0xFF, (~a) & 0xFF
OrMasked(a, b) == Mask8(BitOr(ToInt32(a), ToInt32(b)))

AndMasked(a, b) == Mask8(BitAnd(ToInt32(a), ToInt32(b)))

XorMasked(a, b) == Mask8(BitXor(ToInt32(a), ToInt32(b)))

NotMasked(a) == Mask8(0 - ToInt32(a) - 1)

\* The shift operators use the low five bits of the shift count.
ShiftCountBits == 32

\* The low 8 bits of x << n: each doubling keeps only the bits the final
\* mask can see (the 32-bit wrap of << never reaches them).
RECURSIVE ShlLow8(_, _)
ShlLow8(x, n) == IF n = 0 THEN Mask8(x) ELSE ShlLow8(Mask8(2 * x), n - 1)

\* (left << right) & 0xFF
ShlMasked(left, right) == ShlLow8(ToInt32(left), ToInt32(right) % ShiftCountBits)

\* x >> n for x >= 0
RECURSIVE ShrBits(_, _)
ShrBits(x, n) == IF n = 0 THEN x ELSE ShrBits(x \div 2, n - 1)

\* (left >> right) & 0xFF
ShrMasked(left, right) ==
    Mask8(ShrBits(ToInt32(left), ToInt32(right) % ShiftCountBits))

(***************************************************************************)
(* Strings                                                                 *)
(***************************************************************************)

\* s[i], 0-based; "" stands for undefined (past the end).
Ch(s, i) == IF i >= 0 /\ i < Len(s) THEN SubSeq(s, i + 1, i + 1) ELSE ""

\* s.substring(from, to) and s.substring(from), 0-based, to exclusive
Substring(s, from, to) == SubSeq(s, from + 1, to)

SubstringFrom(s, from) == SubSeq(s, from + 1, Len(s))

CharsOf(s) == {Ch(s, i) : i \in 0..(Len(s) - 1)}

DecDigits == "0123456789"

HexDigitsLower == "0123456789abcdef"

HexDigitsUpper == "0123456789ABCDEF"

UpperLetters == "ABCDEFGHIJKLMNOPQRSTUVWXYZ"

LowerLetters == "abcdefghijklmnopqrstuvwxyz"

\* The character classes of the regular expressions: /[0-9]/, /[0-9a-fA-F]/,
\* /[01]/, /[A-Z]/, /[a-zA-Z_]/, /[a-zA-Z0-9_]/ (also \w), and /\s/ (the white
\* space the inputs use).
DigitChars == CharsOf(DecDigits)

HexChars == CharsOf(HexDigitsLower) \cup CharsOf(HexDigitsUpper)

BinChars == {"0", "1"}

UpperChars == CharsOf(UpperLetters)

IdentStartChars == CharsOf(UpperLetters) \cup CharsOf(LowerLetters) \cup {"_"}

WordChars == IdentStartChars \cup DigitChars

SpaceChars == {" ", "\t", "\n"}

IsSpace(c) == c \in SpaceChars

IsDigit(c) == c \in DigitChars

IsHexDigit(c) == c \in HexChars

IsBinDigit(c) == c \in BinChars

IsUpper(c) == c \in UpperChars

IsIdentStart(c) == c \in IdentStartChars

IsWordChar(c) == c \in WordChars

\* The position (0-based) of character c in alphabet, the digit's value.
IndexIn(alphabet, c) == CHOOSE i \in 0..(Len(alphabet) - 1) : Ch(alphabet, i) = c

HexDigitValue(c) ==
    IF c \in CharsOf(HexDigitsLower) THEN IndexIn(HexDigitsLower, c)
    ELSE IndexIn(HexDigitsUpper, c)

\* c.toLowerCase() for one character, and for a string
LowerChar(c) == IF IsUpper(c) THEN Ch(LowerLetters, IndexIn(UpperLetters, c)) ELSE c

RECURSIVE ToLowerCase(_)
ToLowerCase(s) ==
    IF s = "" THEN "" ELSE LowerChar(Ch(s, 0)) \o ToLowerCase(SubstringFrom(s, 1))

\* s.trim()
RECURSIVE TrimStart(_)
TrimStart(s) == IF s # "" /\ IsSpace(Ch(s, 0)) THEN TrimStart(SubstringFrom(s, 1)) ELSE s

RECURSIVE TrimEnd(_)
TrimEnd(s) ==
    IF s # "" /\ IsSpace(Ch(s, Len(s) - 1)) THEN TrimEnd(Substring(s, 0, Len(s) - 1)) ELSE s

Trim(s) == TrimEnd(TrimStart(s))

StartsWith(s, p) == Len(s) >= Len(p) /\ Substring(s, 0, Len(p)) = p

EndsWith(s, p) == Len(s) >= Len(p) /\ SubstringFrom(s, Len(s) - Len(p)) = p

\* s.indexOf(p), -1 when absent
IndexOf(s, p) ==
    LET hits == {i \in 0..(Len(s) - Len(p)) : Substring(s, i, i + Len(p)) = p}
    IN  IF hits = {} THEN -1 ELSE CHOOSE i \in hits : \A j \in hits : i <= j

Includes(s, p) == IndexOf(s, p) >= 0

\* The end (exclusive) of the longest run of characters of class from i:
\* while (i < s.length && /class/.test(s[i])) i++
RECURSIVE RunEnd(_, _, _)
RunEnd(s, i, class) ==
    IF i < Len(s) /\ Ch(s, i) \in class THEN RunEnd(s, i + 1, class) ELSE i

\* String(n) for n >= 0
RECURSIVE ToDecimal(_)
ToDecimal(n) ==
    IF n < 10 THEN Ch(DecDigits, n) ELSE ToDecimal(n \div 10) \o Ch(DecDigits, n % 10)

\* The element of a one-element set: a loop's state after some turns is
\* worked out in full before the turns that follow it.
TheOne(S) == CHOOSE x \in S : TRUE

\* The digits of a run, most significant first.
DigitList(digits) ==
    SubSeq([i \in 1..Len(digits) |-> HexDigitValue(Ch(digits, i - 1))], 1, Len(digits))

\* The digit at a place of a list of decimal digits, 0 before the first.
DigitAt(ds, i) == IF i >= 1 THEN ds[i] ELSE 0

\* What the digits before a place leave when divided by 16: 10000 is a
\* multiple of 16, so the four digits before it decide.
CarryAt(ds, i) ==
    (DigitAt(ds, i - 4) * 1000 + DigitAt(ds, i - 3) * 100 + DigitAt(ds, i - 2) * 10
     + DigitAt(ds, i - 1)) % 16

\* A list of decimal digits divided by 16, by long division.
SixteenthDecimal(ds) ==
    SubSeq([i \in 1..Len(ds) |-> (CarryAt(ds, i) * 10 + ds[i]) \div 16], 1, Len(ds))

\* The bits of a hex or binary digit, width of them.
RECURSIVE DigitBits(_, _)
DigitBits(d, width) ==
    IF width = 0 THEN <<>> ELSE Append(DigitBits(d \div 2, width - 1), d % 2)

\* The bits, most significant first and four at a time, of the integer a list
\* of decimal digits denotes; no bit for 0.
RECURSIVE DecimalBits(_)
DecimalBits(ds) ==
    IF \A i \in 1..Len(ds) : ds[i] = 0 THEN <<>>
    ELSE TheOne({DecimalBits(rest) \o DigitBits(CarryAt(ds, Len(ds) + 1), 4) :
                 rest \in {SixteenthDecimal(ds)}})

RECURSIVE WithoutLeadingZeros(_)
WithoutLeadingZeros(bits) ==
    IF bits # <<>> /\ bits[1] = 0 THEN WithoutLeadingZeros(Tail(bits)) ELSE bits

RECURSIVE HexBits(_)
HexBits(ds) == IF ds = <<>> THEN <<>> ELSE DigitBits(ds[1], 4) \o HexBits(Tail(ds))

\* The bits of the integer a run of digits denotes in the radix.
IntegerBits(digits, radix) ==
    IF radix = 10 THEN WithoutLeadingZeros(DecimalBits(DigitList(digits)))
    ELSE IF radix = 16 THEN WithoutLeadingZeros(HexBits(DigitList(digits)))
    ELSE WithoutLeadingZeros(DigitList(digits))

\* The integer a short list of bits denotes.
RECURSIVE BitsValue(_)
BitsValue(bits) ==
    IF bits = <<>> THEN 0 ELSE 2 * BitsValue(SubSeq(bits, 1, Len(bits) - 1)) + bits[Len(bits)]

\* The bits a Number keeps of an integer: the significand of a double.
SignificandBits == 53

\* The largest integer text kept exactly here, in bits.
ExactBits == 30

LastBits(bits, n) == SubSeq(bits, IF Len(bits) > n THEN Len(bits) - n + 1 ELSE 1, Len(bits))

\* The low 8 bits of the Number nearest to an integer of more than 53 bits:
\* the bits past the 53rd are dropped, rounding to nearest, ties to even.
RoundedLowByte(bits) ==
    LET dropped == Len(bits) - SignificandBits
        kept == SubSeq(bits, 1, SignificandBits)
        rest == SubSeq(bits, SignificandBits + 1, Len(bits))
        up == IF rest[1] = 1 /\ (kept[SignificandBits] = 1
                                 \/ \E i \in 2..Len(rest) : rest[i] = 1)
              THEN 1 ELSE 0
    IN  IF dropped >= 8 THEN 0
        ELSE ((BitsValue(LastBits(kept, 8 - dropped)) + up) * BitsValue(<<1>> \o [i \in 1..dropped |-> 0]))
             % (ByteMask + 1)

\* The Number parseInt makes of a run of digits: the integer itself when it
\* has at most 30 bits, and a byte with the Number's low 8 bits when it has
\* more (every use of such a Number here is `& 0xFF`).
NumberOf(bits) ==
    IF Len(bits) <= ExactBits THEN BitsValue(bits)
    ELSE IF Len(bits) <= SignificandBits THEN BitsValue(LastBits(bits, 8))
    ELSE RoundedLowByte(bits)

\* parseInt(str, radix) for radix 2, 10 and 16: leading white space is skipped,
\* a 0x/0X prefix is skipped for radix 16, then the longest run of digits of the
\* radix is read; no digit gives NaN (Null). Signs do not occur in the inputs.
RadixChars(radix) ==
    IF radix = 16 THEN HexChars ELSE IF radix = 2 THEN BinChars ELSE DigitChars

ParseInt(str, radix) ==
    LET t == TrimStart(str)
        body == IF radix = 16 /\ (StartsWith(t, "0x") \/ StartsWith(t, "0X"))
                THEN SubstringFrom(t, 2) ELSE t
        e == RunEnd(body, 0, RadixChars(radix))
    IN  IF e = 0 THEN Null
        ELSE Some(TheOne({NumberOf(bits) : bits \in {IntegerBits(Substring(body, 0, e), radix)}}))

\* v & 0xFF for the result of parseInt: NaN & 0xFF is 0.
MaskParsed(v) == IF v = Null THEN 0 ELSE Mask8(v[1])

(***************************************************************************)
(* The symbol table (data/atmega2560)                                      *)
(***************************************************************************)

portNames == <<"A", "B", "C", "D", "E", "F", "G", "H", "J", "K", "L">>

BitsPerPort == 8

\* `${i}` for a bit index
BitDigit(i) == Ch(DecDigits, i)

\* A plain object after a sequence of writes obj[k] = v (entries <<k, v>>, in
\* program order): the last write of a key wins.
Overlay(obj, writes) ==
    LET keys == {writes[i][1] : i \in DOMAIN writes}
        last(k) == CHOOSE i \in DOMAIN writes :
                       /\ writes[i][1] = k
                       /\ \A j \in DOMAIN writes : writes[j][1] = k => j <= i
    IN  [k \in DOMAIN obj \cup keys |-> IF k \in keys THEN writes[last(k)][2] ELSE obj[k]]

\* ports[p].bits[i], .ddrBits[i], .pinBits[i]
PortBit(p, i) == "P" \o portNames[p] \o BitDigit(i)

\* ddrBits[i] with a fault: the name is that of bits[i].
PortDdrBitAsPortBit(p, i) == "P" \o portNames[p] \o BitDigit(i)

PortDdrBit(p, i) == "DD" \o portNames[p] \o BitDigit(i)

PortPinBit(p, i) == "PIN" \o portNames[p] \o BitDigit(i)

\* The writes of the loop that builds bitNameMap, in order: for each port, for
\* each bit i, bits[i], then ddrBits[i], then pinBits[i].
BitNameWrites ==
    [e \in 1..(Len(portNames) * BitsPerPort * 3) |->
        LET p == ((e - 1) \div (BitsPerPort * 3)) + 1
            i == ((e - 1) % (BitsPerPort * 3)) \div 3
            family == (e - 1) % 3
        IN  <<IF family = 0 THEN PortBit(p, i)
              ELSE IF family = 1 THEN PortDdrBit(p, i) ELSE PortPinBit(p, i), i>>]

bitNameMap == Overlay(<<>>, BitNameWrites)

\* The curated table, register by register, as [name, bit] entries in source order.
namedRegisterBits ==
    << <<"UCSR0A", << <<"MPCM0", 0>>, <<"U2X0", 1>>, <<"UPE0", 2>>, <<"DOR0", 3>>,
                      <<"FE0", 4>>, <<"UDRE0", 5>>, <<"TXC0", 6>>, <<"RXC0", 7>> >> >>,
       <<"UCSR0B", << <<"TXB80", 0>>, <<"RXB80", 1>>, <<"UCSZ02", 2>>, <<"TXEN0", 3>>,
                      <<"RXEN0", 4>>, <<"UDRIE0", 5>>, <<"TXCIE0", 6>>, <<"RXCIE0", 7>> >> >>,
       <<"UCSR0C", << <<"UCPOL0", 0>>, <<"UCSZ00", 1>>, <<"UCSZ01", 2>>, <<"USBS0", 3>>,
                      <<"UPM00", 4>>, <<"UPM01", 5>>, <<"UMSEL00", 6>>, <<"UMSEL01", 7>> >> >>,
       <<"TCCR0A", << <<"WGM00", 0>>, <<"WGM01", 1>>, <<"COM0B0", 4>>, <<"COM0B1", 5>>,
                      <<"COM0A0", 6>>, <<"COM0A1", 7>> >> >>,
       <<"TCCR0B", << <<"CS00", 0>>, <<"CS01", 1>>, <<"CS02", 2>>, <<"WGM02", 3>>,
                      <<"FOC0B", 6>>, <<"FOC0A", 7>> >> >>,
       <<"TCCR1A", << <<"WGM10", 0>>, <<"WGM11", 1>>, <<"COM1C0", 2>>, <<"COM1C1", 3>>,
                      <<"COM1B0", 4>>, <<"COM1B1", 5>>, <<"COM1A0", 6>>, <<"COM1A1", 7>> >> >>,
       <<"TCCR1B", << <<"CS10", 0>>, <<"CS11", 1>>, <<"CS12", 2>>, <<"WGM12", 3>>,
                      <<"WGM13", 4>>, <<"ICES1", 6>>, <<"ICNC1", 7>> >> >>,
       <<"TCCR3A", << <<"WGM30", 0>>, <<"WGM31", 1>>, <<"COM3C0", 2>>, <<"COM3C1", 3>>,
                      <<"COM3B0", 4>>, <<"COM3B1", 5>>, <<"COM3A0", 6>>, <<"COM3A1", 7>> >> >>,
       <<"TCCR3B", << <<"CS30", 0>>, <<"CS31", 1>>, <<"CS32", 2>>, <<"WGM32", 3>>,
                      <<"WGM33", 4>>, <<"ICES3", 6>>, <<"ICNC3", 7>> >> >>,
       <<"ADMUX",  << <<"MUX0", 0>>, <<"MUX1", 1>>, <<"MUX2", 2>>, <<"MUX3", 3>>,
                      <<"MUX4", 4>>, <<"ADLAR", 5>>, <<"REFS0", 6>>, <<"REFS1", 7>> >> >>,
       <<"ADCSRA", << <<"ADPS0", 0>>, <<"ADPS1", 1>>, <<"ADPS2", 2>>, <<"ADIE", 3>>,
                      <<"ADIF", 4>>, <<"ADATE", 5>>, <<"ADSC", 6>>, <<"ADEN", 7>> >> >>,
       <<"SPCR",   << <<"SPR0", 0>>, <<"SPR1", 1>>, <<"CPHA", 2>>, <<"CPOL", 3>>,
                      <<"MSTR", 4>>, <<"DORD", 5>>, <<"SPE", 6>>, <<"SPIE", 7>> >> >>,
       <<"EICRA",  << <<"ISC00", 0>>, <<"ISC01", 1>>, <<"ISC10", 2>>, <<"ISC11", 3>>,
                      <<"ISC20", 4>>, <<"ISC21", 5>>, <<"ISC30", 6>>, <<"ISC31", 7>> >> >>,
       <<"EIMSK",  << <<"INT0", 0>>, <<"INT1", 1>>, <<"INT2", 2>>, <<"INT3", 3>>,
                      <<"INT4", 4>>, <<"INT5", 5>>, <<"INT6", 6>>, <<"INT7", 7>> >> >> >>

\* The writes of the loop that overlays the curated table, in order.
RECURSIVE NamedBitWrites(_)
NamedBitWrites(r) ==
    IF r > Len(namedRegisterBits) THEN <<>>
    ELSE namedRegisterBits[r][2] \o NamedBitWrites(r + 1)

allNamedBits == Overlay(bitNameMap, NamedBitWrites(1))

\* `name in obj` on a plain object: own keys and the inherited members.
HasProperty(obj, name) == name \in DOMAIN obj \/ name \in ObjectPrototypeKeys

\* obj[name] when `name in obj`
GetProperty(obj, name) == IF name \in DOMAIN obj THEN obj[name] ELSE InheritedObject

(***************************************************************************)
(* The tokenizer (evaluator.ts)                                            *)
(***************************************************************************)

\* A token; numValue is set on NUMBER tokens only.
Token(type, value) == [type |-> type, value |-> value, numValue |-> Null]

NumberToken(value, numValue) == [type |-> "NUMBER", value |-> value, numValue |-> Some(numValue)]

EofToken == Token("EOF", "")

TwoCharOperators ==
    [x \in {"|=", "&=", "^=", "<<", ">>"} |->
        CASE x = "|=" -> "OR_ASSIGN" [] x = "&=" -> "AND_ASSIGN" [] x = "^=" -> "XOR_ASSIGN"
          [] x = "<<" -> "LSHIFT" [] x = ">>" -> "RSHIFT"]

OneCharOperators ==
    [x \in {"=", "|", "&", "^", "~", "(", ")"} |->
        CASE x = "=" -> "ASSIGN" [] x = "|" -> "OR" [] x = "&" -> "AND" [] x = "^" -> "XOR"
          [] x = "~" -> "NOT" [] x = "(" -> "LPAREN" [] x = ")" -> "RPAREN"]

\* The number literal with a fault: after 0x, letters that are no hex digits
\* are taken into the literal too.
ScanNumberWordRun(s, i) ==
    IF Ch(s, i) = "0" /\ i + 1 < Len(s) /\ Ch(s, i + 1) \in {"x", "X"}
    THEN [token |-> NumberToken("0x" \o Substring(s, i + 2, RunEnd(s, i + 2, WordChars)),
                                MaskParsed(ParseInt("0x" \o Substring(s, i + 2,
                                                                      RunEnd(s, i + 2, WordChars)),
                                                    16))),
          next |-> RunEnd(s, i + 2, WordChars)]
    ELSE IF Ch(s, i) = "0" /\ i + 1 < Len(s) /\ Ch(s, i + 1) \in {"b", "B"}
    THEN [token |-> NumberToken("0b" \o Substring(s, i + 2, RunEnd(s, i + 2, BinChars)),
                                MaskParsed(ParseInt(Substring(s, i + 2,
                                                              RunEnd(s, i + 2, BinChars)), 2))),
          next |-> RunEnd(s, i + 2, BinChars)]
    ELSE [token |-> NumberToken(Substring(s, i, RunEnd(s, i, DigitChars)),
                                MaskParsed(ParseInt(Substring(s, i, RunEnd(s, i, DigitChars)),
                                                    10))),
          next |-> RunEnd(s, i, DigitChars)]

\* The number literal starting at i: its token and the position after it.
ScanNumber(s, i) ==
    IF Ch(s, i) = "0" /\ i + 1 < Len(s) /\ Ch(s, i + 1) \in {"x", "X"}
    THEN LET e == RunEnd(s, i + 2, HexChars)
             numStr == "0x" \o Substring(s, i + 2, e)
         IN  [token |-> NumberToken(numStr, MaskParsed(ParseInt(numStr, 16))), next |-> e]
    ELSE IF Ch(s, i) = "0" /\ i + 1 < Len(s) /\ Ch(s, i + 1) \in {"b", "B"}
    THEN LET e == RunEnd(s, i + 2, BinChars)
             numStr == "0b" \o Substring(s, i + 2, e)
         IN  [token |-> NumberToken(numStr, MaskParsed(ParseInt(SubstringFrom(numStr, 2), 2))),
              next |-> e]
    ELSE LET e == RunEnd(s, i, DigitChars)
             numStr == Substring(s, i, e)
         IN  [token |-> NumberToken(numStr, MaskParsed(ParseInt(numStr, 10))), next |-> e]

\* Where the scan is: the position i and the tokens pushed so far.
ScanState(i, tokens) == [i |-> i, tokens |-> tokens]

\* The loop's turn with the one-character operators tried first.
ScanStepOneCharFirst(s, st) ==
    IF st.i >= Len(s) THEN st
    ELSE IF IsSpace(Ch(s, st.i)) THEN ScanState(st.i + 1, st.tokens)
    ELSE IF Ch(s, st.i) = ";"
    THEN ScanState(st.i + 1, Append(st.tokens, Token("SEMICOLON", ";")))
    ELSE IF Ch(s, st.i) \in DOMAIN OneCharOperators
    THEN ScanState(st.i + 1,
                   Append(st.tokens, Token(OneCharOperators[Ch(s, st.i)], Ch(s, st.i))))
    ELSE IF st.i + 1 < Len(s) /\ Substring(s, st.i, st.i + 2) \in DOMAIN TwoCharOperators
    THEN ScanState(st.i + 2,
                   Append(st.tokens, Token(TwoCharOperators[Substring(s, st.i, st.i + 2)],
                                           Substring(s, st.i, st.i + 2))))
    ELSE IF IsDigit(Ch(s, st.i))
    THEN ScanState(ScanNumber(s, st.i).next, Append(st.tokens, ScanNumber(s, st.i).token))
    ELSE IF IsIdentStart(Ch(s, st.i))
    THEN ScanState(RunEnd(s, st.i, WordChars),
                   Append(st.tokens,
                          Token("IDENTIFIER", Substring(s, st.i, RunEnd(s, st.i, WordChars)))))
    ELSE ScanState(st.i + 1, st.tokens)

\* One turn of the while loop of tokenize; past the end nothing is left to do.
ScanStep(s, st) ==
    IF st.i >= Len(s) THEN st
    ELSE IF IsSpace(Ch(s, st.i)) THEN ScanState(st.i + 1, st.tokens)
    ELSE IF Ch(s, st.i) = ";"
    THEN ScanState(st.i + 1, Append(st.tokens, Token("SEMICOLON", ";")))
    ELSE IF st.i + 1 < Len(s) /\ Substring(s, st.i, st.i + 2) \in DOMAIN TwoCharOperators
    THEN ScanState(st.i + 2,
                   Append(st.tokens, Token(TwoCharOperators[Substring(s, st.i, st.i + 2)],
                                           Substring(s, st.i, st.i + 2))))
    ELSE IF Ch(s, st.i) \in DOMAIN OneCharOperators
    THEN ScanState(st.i + 1,
                   Append(st.tokens, Token(OneCharOperators[Ch(s, st.i)], Ch(s, st.i))))
    ELSE IF IsDigit(Ch(s, st.i))
    THEN ScanState(ScanNumber(s, st.i).next, Append(st.tokens, ScanNumber(s, st.i).token))
    ELSE IF IsIdentStart(Ch(s, st.i))
    THEN ScanState(RunEnd(s, st.i, WordChars),
                   Append(st.tokens,
                          Token("IDENTIFIER", Substring(s, st.i, RunEnd(s, st.i, WordChars)))))
    ELSE ScanState(st.i + 1, st.tokens)

\* n turns of the while loop of tokenize from st, the first half of them and
\* then the rest.
RECURSIVE ScanFrom(_, _, _)
ScanFrom(s, st, n) ==
    IF n = 0 THEN st
    ELSE IF n = 1 THEN ScanStep(s, st)
    ELSE TheOne({ScanFrom(s, half, n - n \div 2) : half \in {ScanFrom(s, st, n \div 2)}})

\* The scan of the whole text: a turn moves on by a character at least, so as
\* many turns as the text has characters reach its end.
ScanAll(s) == ScanFrom(s, ScanState(0, <<>>), Len(s))

\* tokenize with a fault: no EOF token is pushed.
tokenizeWithoutEof(input) == ScanAll(Trim(input)).tokens

tokenize(input) == Append(ScanAll(Trim(input)).tokens, EofToken)

(***************************************************************************)
(* The recursive-descent parser (evaluator.ts, class Parser).  A parse     *)
(* method returns where it stopped and its value, or the Error it threw.   *)
(***************************************************************************)

Parsed(val, pos) == [thrown |-> FALSE, msg |-> "", val |-> val, pos |-> pos]

Thrown(msg, pos) == [thrown |-> TRUE, msg |-> msg, val |-> 0, pos |-> pos]

\* this.tokens[this.pos] || EOF, pos counted from 0
peek(tokens, pos) == IF pos < Len(tokens) THEN tokens[pos + 1] ELSE EofToken

\* expect(type): the position after the token, or the Error
expect(tokens, pos, type, val) ==
    LET t == peek(tokens, pos)
    IN  IF t.type # type
        THEN Thrown("Expected " \o type \o " but got " \o t.type \o " ('" \o t.value \o "')", pos)
        ELSE Parsed(val, pos + 1)

\* left = (left op right) & 0xFF for the operator token type
ApplyBinary(type, left, right) ==
    CASE type = "OR" -> OrMasked(left, right)
      [] type = "XOR" -> XorMasked(left, right)
      [] type = "AND" -> AndMasked(left, right)
      [] type = "LSHIFT" -> ShlMasked(left, right)
      [] type = "RSHIFT" -> ShrMasked(left, right)

\* One turn of a binary level's while loop, given what parsing the right
\* operand returned.
BinaryStep(type, left, right) ==
    IF right.thrown THEN right
    ELSE Parsed(ApplyBinary(type, left.val, right.val), right.pos)

\* ~operand, given what parsing the operand returned
UnaryStep(operand) ==
    IF operand.thrown THEN operand ELSE Parsed(NotMasked(operand.val), operand.pos)

\* this.expect('RPAREN') after the parenthesised expression
CloseParen(tokens, inner) ==
    IF inner.thrown THEN inner ELSE expect(tokens, inner.pos, "RPAREN", inner.val)

RECURSIVE parseOr(_, _), parseOrLoop(_, _), parseXor(_, _), parseXorLoop(_, _)
RECURSIVE parseAnd(_, _), parseAndLoop(_, _), parseShift(_, _), parseShiftLoop(_, _)
RECURSIVE parseUnary(_, _), parsePrimary(_, _)

parseExpression(tokens, pos) == parseOr(tokens, pos)

parsePrimary(tokens, pos) ==
    IF peek(tokens, pos).type = "NUMBER" THEN Parsed(peek(tokens, pos).numValue[1], pos + 1)
    ELSE IF peek(tokens, pos).type = "IDENTIFIER"
    THEN IF HasProperty(allNamedBits, peek(tokens, pos).value)
         THEN Parsed(GetProperty(allNamedBits, peek(tokens, pos).value), pos + 1)
         ELSE Thrown("Unknown identifier: " \o peek(tokens, pos).value, pos + 1)
    ELSE IF peek(tokens, pos).type = "LPAREN"
    THEN CloseParen(tokens, parseExpression(tokens, pos + 1))
    ELSE Thrown("Unexpected token: " \o peek(tokens, pos).type
                \o " ('" \o peek(tokens, pos).value \o "')", pos)

parseUnary(tokens, pos) ==
    IF peek(tokens, pos).type = "NOT"
    THEN UnaryStep(parseUnary(tokens, pos + 1))
    ELSE parsePrimary(tokens, pos)

\* The while loop of a binary level: left is what has been parsed so far.
parseShiftLoop(tokens, left) ==
    IF left.thrown THEN left
    ELSE IF peek(tokens, left.pos).type \in {"LSHIFT", "RSHIFT"}
    THEN parseShiftLoop(tokens, BinaryStep(peek(tokens, left.pos).type, left,
                                           parseUnary(tokens, left.pos + 1)))
    ELSE left

parseShift(tokens, pos) == parseShiftLoop(tokens, parseUnary(tokens, pos))

parseAndLoop(tokens, left) ==
    IF left.thrown THEN left
    ELSE IF peek(tokens, left.pos).type = "AND"
    THEN parseAndLoop(tokens, BinaryStep("AND", left, parseShift(tokens, left.pos + 1)))
    ELSE left

\* parseAnd with a fault: no & is taken at its level.
parseAndSkipped(tokens, pos) == parseShift(tokens, pos)

parseAnd(tokens, pos) == parseAndLoop(tokens, parseShift(tokens, pos))

parseXorLoop(tokens, left) ==
    IF left.thrown THEN left
    ELSE IF peek(tokens, left.pos).type = "XOR"
    THEN parseXorLoop(tokens, BinaryStep("XOR", left, parseAnd(tokens, left.pos + 1)))
    ELSE left

parseXor(tokens, pos) == parseXorLoop(tokens, parseAnd(tokens, pos))

parseOrLoop(tokens, left) ==
    IF left.thrown THEN left
    ELSE IF peek(tokens, left.pos).type = "OR"
    THEN parseOrLoop(tokens, BinaryStep("OR", left, parseXor(tokens, left.pos + 1)))
    ELSE left

parseOr(tokens, pos) == parseOrLoop(tokens, parseXor(tokens, pos))

\* What parseStatement returns: null (isNull), a statement, or the Error thrown.
Statement(isNull, register, value, op, pos) ==
    [thrown |-> FALSE, msg |-> "", isNull |-> isNull, register |-> register,
     value |-> value, op |-> op, pos |-> pos]

StatementThrown(msg, pos) ==
    [thrown |-> TRUE, msg |-> msg, isNull |-> FALSE, register |-> "", value |-> 0,
     op |-> "", pos |-> pos]

AssignOperators ==
    [x \in {"ASSIGN", "OR_ASSIGN", "AND_ASSIGN", "XOR_ASSIGN"} |->
        CASE x = "ASSIGN" -> "=" [] x = "OR_ASSIGN" -> "|=" [] x = "AND_ASSIGN" -> "&="
          [] x = "XOR_ASSIGN" -> "^="]

\* The rest of parseStatement, given what parsing the right-hand side returned:
\* the optional semicolon is consumed.
StatementOf(tokens, register, op, expr) ==
    IF expr.thrown THEN StatementThrown(expr.msg, expr.pos)
    ELSE Statement(FALSE, register, expr.val, op,
                   IF peek(tokens, expr.pos).type = "SEMICOLON"
                   THEN expr.pos + 1 ELSE expr.pos)

parseStatement(tokens, pos) ==
    IF peek(tokens, pos).type = "EOF" THEN Statement(TRUE, "", 0, "", pos)
    ELSE IF peek(tokens, pos).type = "SEMICOLON" THEN Statement(TRUE, "", 0, "", pos + 1)
    ELSE IF peek(tokens, pos).type # "IDENTIFIER"
    THEN StatementThrown(expect(tokens, pos, "IDENTIFIER", 0).msg, pos)
    ELSE IF peek(tokens, pos + 1).type \notin DOMAIN AssignOperators
    THEN StatementThrown("Expected assignment operator but got '"
                         \o peek(tokens, pos + 1).value \o "'", pos + 1)
    ELSE StatementOf(tokens, peek(tokens, pos).value,
                     AssignOperators[peek(tokens, pos + 1).type],
                     parseExpression(tokens, pos + 2))

(***************************************************************************)
(* evaluate and checkAnswer (evaluator.ts)                                 *)
(***************************************************************************)

\* The statement cap of evaluate's loop.
SafetyLimit == 100

\* The read with a fault: the register's value is never looked up.
ReadAlwaysZero(states, register) == 0

\* states[register] ?? 0 on the plain object states: an own key, else an
\* inherited member, else undefined, which ?? replaces by 0.
ReadOrZero(states, register) ==
    IF register \in DOMAIN states THEN states[register]
    ELSE IF register \in ObjectPrototypeKeys THEN InheritedObject
    ELSE 0

\* states[register] = after on the plain object states: writing the key
\* __proto__, unless it is an own key already, runs the inherited setter, which
\* ignores a number; every other key becomes (or stays) an own key.
WriteRegister(states, register, after) ==
    IF register = "__proto__" /\ register \notin DOMAIN states THEN states
    ELSE [r \in DOMAIN states \cup {register} |-> IF r = register THEN after ELSE states[r]]

\* The switch with a fault: every operator acts as |=.
ApplyOpAlwaysOr(op, before, value) == OrMasked(before, value)

\* The switch on stmt.op
ApplyOp(op, before, value) ==
    CASE op = "="  -> Mask8(ToInt32(value))
      [] op = "|=" -> OrMasked(before, value)
      [] op = "&=" -> AndMasked(before, value)
      [] op = "^=" -> XorMasked(before, value)

Step(register, op, exprValue, before, after) ==
    [register |-> register, op |-> op, exprValue |-> exprValue,
     before |-> before, after |-> after]

\* Where the try block is: the parser's position, the states and steps
\* committed, the loop counter, and how the block ended if it has (done): by
\* its return, or by an Error reaching the catch (thrown, with its message).
TryState(pos, states, steps, safety, done, thrown, msg) ==
    [pos |-> pos, states |-> states, steps |-> steps, safety |-> safety,
     done |-> done, thrown |-> thrown, msg |-> msg]

\* How the try block ends, with the states and steps the loop had committed.
TryEnd(st, thrown, msg) == [st EXCEPT !.done = TRUE, !.thrown = thrown, !.msg = msg]

\* The body of the while loop, given what parseStatement returned.
RunStatement(tokens, st, stmt) ==
    IF stmt.thrown THEN TryEnd(st, TRUE, stmt.msg)
    ELSE IF stmt.isNull
    THEN IF peek(tokens, stmt.pos).type = "EOF"
         THEN TryEnd(st, FALSE, "")
         ELSE TryState(stmt.pos, st.states, st.steps, st.safety + 1, FALSE, FALSE, "")
    ELSE LET before == ReadOrZero(st.states, stmt.register)
             after == ApplyOp(stmt.op, before, stmt.value)
         IN  TryState(stmt.pos,
                      WriteRegister(st.states, stmt.register, after),
                      Append(st.steps, Step(stmt.register, stmt.op, stmt.value,
                                            before, after)),
                      st.safety + 1, FALSE, FALSE, "")

\* One turn of the while loop with a fault: no cap on the iterations.
RunTurnUncapped(tokens, st) ==
    IF st.done THEN st ELSE RunStatement(tokens, st, parseStatement(tokens, st.pos))

\* One turn of the while loop: its condition, then its body; once the block
\* has ended nothing is left to do.
RunTurn(tokens, st) ==
    IF st.done THEN st
    ELSE IF ~(st.safety < SafetyLimit) THEN TryEnd(st, FALSE, "")
    ELSE RunStatement(tokens, st, parseStatement(tokens, st.pos))

\* n turns of the while loop from st, the first half of them and then the rest.
RECURSIVE RunStatements(_, _, _)
RunStatements(tokens, st, n) ==
    IF n = 0 THEN st
    ELSE IF n = 1 THEN RunTurn(tokens, st)
    ELSE TheOne({RunStatements(tokens, half, n - n \div 2) :
                    half \in {RunStatements(tokens, st, n \div 2)}})

\* The catch clause with a fault: it discards what the loop had committed.
CatchErrorDiscarding(body) ==
    [raised |-> FALSE, success |-> FALSE, registerStates |-> <<>>,
     error |-> Some(IF body.msg # "" THEN body.msg ELSE "Parse error"),
     steps |-> <<>>]

\* The catch clause: every Error of the try block becomes a failure result.
\* raised tells whether an exception leaves evaluate.
CatchError(body) ==
    [raised |-> FALSE, success |-> FALSE, registerStates |-> body.states,
     error |-> Some(IF body.msg # "" THEN body.msg ELSE "Parse error"),
     steps |-> body.steps]

\* What evaluate returns, given how its try block ended.
EvaluationResult(body) ==
    IF body.thrown THEN CatchError(body)
    ELSE [raised |-> FALSE, success |-> TRUE, registerStates |-> body.states,
          error |-> Null, steps |-> body.steps]

\* The loop has ended after one turn more than the cap allows iterations.
evaluate(text, initialStates) ==
    EvaluationResult(RunStatements(tokenize(text),
                                   TryState(0, initialStates, <<>>, 0, FALSE, FALSE, ""),
                                   SafetyLimit + 1))

\* The caller's mapping with a fault: evaluate works on the mapping itself.
CallerMappingAliased(text, initialStates) == evaluate(text, initialStates).registerStates

\* The caller's mapping after evaluate(text, initialStates): `states` is a copy
\* made on entry and every write goes to the copy.
CallerMappingAfter(text, initialStates) == initialStates

\* { [targetRegister]: initialValue }: a computed key is always an own key.
SeedStates(targetRegister, initialValue) == [r \in {targetRegister} |-> initialValue]

\* The observed value with a fault: the final state is not read.
ObservedInitial(states, targetRegister, initialValue) == initialValue

\* result.registerStates[targetRegister] ?? initialValue
ObservedValue(states, targetRegister, initialValue) ==
    IF targetRegister \in DOMAIN states THEN states[targetRegister]
    ELSE IF targetRegister \in ObjectPrototypeKeys THEN InheritedObject
    ELSE initialValue

\* checkAnswer with a fault: a failed evaluation is compared like a successful one.
CheckResultObserving(res, targetRegister, initialValue, expectedValue) ==
    [raised |-> FALSE,
     correct |-> (ObservedValue(res.registerStates, targetRegister, initialValue)
                  = expectedValue),
     userResult |-> Some(ObservedValue(res.registerStates, targetRegister, initialValue)),
     expected |-> expectedValue, error |-> res.error, steps |-> res.steps]

\* checkAnswer, given what its call of evaluate returned.
CheckResult(res, targetRegister, initialValue, expectedValue) ==
    IF res.raised
    THEN [raised |-> TRUE, correct |-> FALSE, userResult |-> Null,
          expected |-> expectedValue, error |-> Null, steps |-> <<>>]
    ELSE IF ~res.success
    THEN [raised |-> FALSE, correct |-> FALSE, userResult |-> Null,
          expected |-> expectedValue, error |-> res.error, steps |-> res.steps]
    ELSE LET userResult == ObservedValue(res.registerStates, targetRegister, initialValue)
         IN  [raised |-> FALSE, correct |-> (userResult = expectedValue),
              userResult |-> Some(userResult), expected |-> expectedValue,
              error |-> Null, steps |-> res.steps]

checkAnswer(userCode, targetRegister, initialValue, expectedValue) ==
    CheckResult(evaluate(userCode, SeedStates(targetRegister, initialValue)),
                targetRegister, initialValue, expectedValue)

(***************************************************************************)
(* The partial expression analyzer (expression display module).  Its       *)
(* parseExpression is analyzerParseExpression here, the Parser's method    *)
(* of the same name being parseExpression above.                           *)
(***************************************************************************)

\* resolveIdentifier: `name in allNamedBits` also finds the inherited members.
resolveIdentifier(name) ==
    IF HasProperty(allNamedBits, name) THEN Some(GetProperty(allNamedBits, name)) ELSE Null

\* /^\d+$/
IsAllDigits(str) == str # "" /\ RunEnd(str, 0, DigitChars) = Len(str)

parseNumberLiteral(str) ==
    LET cleaned == ToLowerCase(Trim(str)) IN
    IF StartsWith(cleaned, "0x")
    THEN LET v == ParseInt(cleaned, 16) IN IF v = Null THEN Null ELSE Some(Mask8(v[1]))
    ELSE IF StartsWith(cleaned, "0b")
    THEN LET v == ParseInt(SubstringFrom(cleaned, 2), 2)
         IN  IF v = Null THEN Null ELSE Some(Mask8(v[1]))
    ELSE IF IsAllDigits(cleaned)
    THEN Some(Mask8(ParseInt(cleaned, 10)[1]))
    ELSE Null

\* The for loop of isBalanced: FALSE as soon as the depth goes below 0.
RECURSIVE BalancedFrom(_, _, _)
BalancedFrom(str, i, depth) ==
    IF i >= Len(str) THEN depth = 0
    ELSE LET d == IF Ch(str, i) = "(" THEN depth + 1
                  ELSE IF Ch(str, i) = ")" THEN depth - 1 ELSE depth
         IN  IF d < 0 THEN FALSE ELSE BalancedFrom(str, i + 1, d)

isBalanced(str) == BalancedFrom(str, 0, 0)

\* The for loop of splitOnOperator.
RECURSIVE SplitFrom(_, _, _, _, _, _)
SplitFrom(str, op, i, depth, current, parts) ==
    IF i >= Len(str) THEN (IF current # "" THEN Append(parts, current) ELSE parts)
    ELSE LET c == Ch(str, i)
             d == IF c = "(" THEN depth + 1 ELSE IF c = ")" THEN depth - 1 ELSE depth
             following == Ch(str, i + 1)
         IN  IF /\ d = 0
                /\ c = op
                /\ ~(op = "&" /\ following = "=")
                /\ ~(op = "|" /\ following = "=")
                /\ ~(op = "^" /\ following = "=")
             THEN IF (op = "<" /\ following = "<") \/ (op = ">" /\ following = ">")
                  THEN SplitFrom(str, op, i + 1, d, current \o c, parts)
                  ELSE SplitFrom(str, op, i + 1, d, "", Append(parts, current))
             ELSE SplitFrom(str, op, i + 1, d, current \o c, parts)

splitOnOperator(str, op) == SplitFrom(str, op, 0, 0, "", <<>>)

\* The for loop of countUnmatchedParens.
RECURSIVE UnmatchedFrom(_, _, _)
UnmatchedFrom(str, i, depth) ==
    IF i >= Len(str) THEN depth
    ELSE UnmatchedFrom(str, i + 1,
                       IF Ch(str, i) = "(" THEN depth + 1
                       ELSE IF Ch(str, i) = ")" THEN (IF depth - 1 > 0 THEN depth - 1 ELSE 0)
                       ELSE depth)

countUnmatchedParens(str) == UnmatchedFrom(str, 0, 0)

\* expr.replace(/\s+/g, '')
RECURSIVE RemoveSpaces(_)
RemoveSpaces(str) ==
    IF str = "" THEN ""
    ELSE (IF IsSpace(Ch(str, 0)) THEN "" ELSE Ch(str, 0)) \o RemoveSpaces(SubstringFrom(str, 1))

\* The while loop that removes outer parentheses.
RECURSIVE StripOuterParens(_)
StripOuterParens(str) ==
    IF StartsWith(str, "(") /\ EndsWith(str, ")") /\ isBalanced(Substring(str, 1, Len(str) - 1))
    THEN StripOuterParens(Substring(str, 1, Len(str) - 1))
    ELSE str

RECURSIVE safeEval(_), SafeEvalParts(_, _, _, _)

\* The loops over orParts, andParts and xorParts: result after the parts from i
\* on, or Null as soon as one part does not evaluate.
SafeEvalParts(parts, op, i, acc) ==
    IF i > Len(parts) THEN Some(Mask8(ToInt32(acc)))
    ELSE LET val == safeEval(parts[i]) IN
         IF val = Null THEN Null
         ELSE SafeEvalParts(parts, op, i + 1,
                            CASE op = "|" -> BitOr(ToInt32(acc), ToInt32(val[1]))
                              [] op = "&" -> BitAnd(ToInt32(acc), ToInt32(val[1]))
                              [] op = "^" -> IF i = 1 THEN val[1]
                                             ELSE BitXor(ToInt32(acc), ToInt32(val[1])))

safeEval(expr) ==
    LET str == StripOuterParens(RemoveSpaces(expr))
        orParts == splitOnOperator(str, "|")
        andParts == splitOnOperator(str, "&")
        xorParts == splitOnOperator(str, "^")
        lshiftIdx == IndexOf(str, "<<")
        rshiftIdx == IndexOf(str, ">>")
        num == parseNumberLiteral(str)
    IN  IF Len(orParts) > 1 THEN SafeEvalParts(orParts, "|", 1, 0)
        ELSE IF Len(andParts) > 1 THEN SafeEvalParts(andParts, "&", 1, ByteMask)
        ELSE IF Len(xorParts) > 1 THEN SafeEvalParts(xorParts, "^", 1, 0)
        ELSE IF StartsWith(str, "~")
        THEN LET val == safeEval(SubstringFrom(str, 1))
             IN  IF val = Null THEN Null ELSE Some(NotMasked(val[1]))
        ELSE IF lshiftIdx >= 0
        THEN LET left == safeEval(Substring(str, 0, lshiftIdx))
                 right == safeEval(SubstringFrom(str, lshiftIdx + 2))
             IN  IF left # Null /\ right # Null THEN Some(ShlMasked(left[1], right[1]))
                 ELSE Null
        ELSE IF rshiftIdx >= 0
        THEN LET left == safeEval(Substring(str, 0, rshiftIdx))
                 right == safeEval(SubstringFrom(str, rshiftIdx + 2))
             IN  IF left # Null /\ right # Null THEN Some(ShrMasked(left[1], right[1]))
                 ELSE Null
        ELSE IF num # Null THEN num
        ELSE IF HasProperty(allNamedBits, str) THEN Some(GetProperty(allNamedBits, str))
        ELSE Null

\* safeEval recurses on strictly shorter strings, so its try block never
\* catches anything for the texts considered.
tryEvaluatePartial(expr) ==
    LET trimmed == Trim(expr)
        num == parseNumberLiteral(trimmed)
        resolved == resolveIdentifier(trimmed)
    IN  IF trimmed = "" THEN Null
        ELSE IF num # Null THEN num
        ELSE IF resolved # Null THEN resolved
        ELSE safeEval(trimmed)

\* (n & 0xFF).toString(2).padStart(8, '0')
RECURSIVE BinaryDigits(_, _)
BinaryDigits(n, width) ==
    IF width = 0 THEN "" ELSE BinaryDigits(n \div 2, width - 1) \o Ch(DecDigits, n % 2)

toBin8(n) == BinaryDigits(Mask8(ToInt32(n)), BitsPerPort)

\* An ExpressionPart; binaryValue and label are optional.
Part(text, type, binaryValue, label) ==
    [text |-> text, type |-> type, binaryValue |-> binaryValue, label |-> label]

\* `${n}` for a value that may be an inherited object
ValueText(v) == IF v = InheritedObject THEN "[object]" ELSE ToDecimal(v)

\* rhs.match(/^\(?(\d+)\s*<<\s*(\w+)\)?$/): whether it matches, and the groups.
ShiftMatch(rhs) ==
    LET start == IF Ch(rhs, 0) = "(" THEN 1 ELSE 0
        digitsEnd == RunEnd(rhs, start, DigitChars)
        opAt == RunEnd(rhs, digitsEnd, SpaceChars)
        wordAt == RunEnd(rhs, opAt + 2, SpaceChars)
        wordEnd == RunEnd(rhs, wordAt, WordChars)
        rest == SubstringFrom(rhs, wordEnd)
    IN  [matches |-> /\ digitsEnd > start
                     /\ opAt + 2 <= Len(rhs)
                     /\ Substring(rhs, opAt, opAt + 2) = "<<"
                     /\ wordEnd > wordAt
                     /\ rest \in {"", ")"},
         base |-> Substring(rhs, start, digitsEnd),
         shiftBy |-> Substring(rhs, wordAt, wordEnd)]

\* The parts of the single-shift pattern.
ShiftParts(rhs, m) ==
    LET base == ParseInt(m.base, 10)[1]
        literal == parseNumberLiteral(m.shiftBy)
        shiftNum == IF literal # Null THEN literal ELSE resolveIdentifier(m.shiftBy)
        evaluated == IF shiftNum # Null THEN Some(ShlMasked(base, shiftNum[1])) ELSE Null
    IN  << Part("(", "paren", Null, Null),
           Part(ToDecimal(base), "value", Some(Mask8(base)), Some(ToDecimal(base))),
           Part("<<", "shift-op", Null, Null),
           Part(m.shiftBy, "value", shiftNum,
                Some(IF shiftNum # Null THEN "bit " \o ValueText(shiftNum[1]) ELSE m.shiftBy)) >>
        \o (IF EndsWith(rhs, ")") \/ EndsWith(rhs, ");")
            THEN <<Part(")", "paren", Null, Null)>> ELSE <<>>)
        \o (IF evaluated # Null
            THEN <<Part("= " \o toBin8(evaluated[1]), "separator", evaluated, Null)>>
            ELSE <<>>)

\* rhs.replace(/^\(/, '').replace(/\)$/, '')
StripOneParen(rhs) ==
    LET a == IF StartsWith(rhs, "(") THEN SubstringFrom(rhs, 1) ELSE rhs
    IN  IF EndsWith(a, ")") THEN Substring(a, 0, Len(a) - 1) ELSE a

\* What buildRhsParts does: it returns parts, or it never returns: a call whose
\* OR branch finds a segment equal to its own argument calls itself with that
\* argument again, without end, until the engine throws RangeError (overflow).
\* Every other recursive call is on a strictly shorter string.
RECURSIVE buildRhsParts(_), BuildOrSegments(_, _, _)

BuildOrSegments(rhs, orSegments, i) ==
    IF i > Len(orSegments) THEN [overflow |-> FALSE, parts |-> <<>>]
    ELSE LET seg == Trim(orSegments[i])
             segParts == IF seg = rhs THEN [overflow |-> TRUE, parts |-> <<>>]
                         ELSE buildRhsParts(seg)
             others == BuildOrSegments(rhs, orSegments, i + 1)
         IN  IF segParts.overflow THEN segParts
             ELSE IF others.overflow THEN others
             ELSE [overflow |-> FALSE,
                   parts |-> (IF i > 1 THEN <<Part("|", "operator", Null, Null)>> ELSE <<>>)
                             \o segParts.parts \o others.parts]

buildRhsParts(rhs) ==
    LET m == ShiftMatch(rhs) IN
    IF m.matches THEN [overflow |-> FALSE, parts |-> ShiftParts(rhs, m)]
    ELSE IF StartsWith(rhs, "~")
    THEN LET innerParts == buildRhsParts(SubstringFrom(rhs, 1))
         IN  IF innerParts.overflow THEN innerParts
             ELSE [overflow |-> FALSE,
                   parts |-> <<Part("~", "operator", Null, Null)>> \o innerParts.parts]
    ELSE IF Includes(rhs, "|") /\ Includes(rhs, "<<")
    THEN BuildOrSegments(rhs, splitOnOperator(StripOneParen(rhs), "|"), 1)
    ELSE [overflow |-> FALSE,
          parts |-> <<Part(rhs, "value", tryEvaluatePartial(rhs), Null)>>]

\* An ExpressionBreakdown (without its description), or threw: the exception
\* that left parseExpression.
Breakdown(parts, resultPreview, registerName, operator, operandValue) ==
    [threw |-> FALSE, parts |-> parts, resultPreview |-> resultPreview,
     registerName |-> registerName, operator |-> operator, operandValue |-> operandValue]

BreakdownThrew ==
    [threw |-> TRUE, parts |-> <<>>, resultPreview |-> Null, registerName |-> Null,
     operator |-> Null, operandValue |-> Null]

\* /[A-Z0-9_]/
RegisterChars == UpperChars \cup DigitChars \cup {"_"}

\* afterReg.match(/^(\|=|&=|\^=|=)/): the operator matched, "" for no match
MatchOperator(afterReg) ==
    IF StartsWith(afterReg, "|=") THEN "|="
    ELSE IF StartsWith(afterReg, "&=") THEN "&="
    ELSE IF StartsWith(afterReg, "^=") THEN "^="
    ELSE IF StartsWith(afterReg, "=") THEN "="
    ELSE ""

\* The text shown for an operator: opLabels (the arrow of '=' is written "<-").
OperatorLabel(operator) == IF operator = "=" THEN "<-" ELSE operator

\* afterOp.replace(/;$/, '').trim()
CleanRhs(afterOp) ==
    Trim(IF EndsWith(afterOp, ";") THEN Substring(afterOp, 0, Len(afterOp) - 1) ELSE afterOp)

\* ')'.repeat(n)
RECURSIVE RepeatParen(_)
RepeatParen(n) == IF n = 0 THEN "" ELSE ")" \o RepeatParen(n - 1)

\* The switch that computes resultPreview.
PreviewOf(operator, initialValue, operandValue) ==
    CASE operator = "="  -> Mask8(ToInt32(operandValue))
      [] operator = "|=" -> OrMasked(initialValue, operandValue)
      [] operator = "&=" -> AndMasked(initialValue, operandValue)
      [] operator = "^=" -> XorMasked(initialValue, operandValue)

analyzerParseExpression(input, initialValue) ==
    LET trimmed == Trim(input)
        regEnd == IF IsUpper(Ch(trimmed, 0)) THEN RunEnd(trimmed, 1, RegisterChars) ELSE 0
        foundRegister == Substring(trimmed, 0, regEnd)
        registerPart == Part(foundRegister, "register", Some(initialValue), Null)
        afterReg == Trim(SubstringFrom(trimmed, regEnd))
        operator == MatchOperator(afterReg)
        afterOp == Trim(SubstringFrom(afterReg, Len(operator)))
        rhsClean == CleanRhs(afterOp)
        operandValue == tryEvaluatePartial(rhsClean)
        rhsParts == buildRhsParts(rhsClean)
        unmatchedParens == countUnmatchedParens(rhsClean)
    IN  IF trimmed = "" THEN Breakdown(<<>>, Null, Null, Null, Null)
        ELSE IF regEnd = 0
        THEN Breakdown(<<Part(trimmed, "value", Null, Null)>>, Null, Null, Null, Null)
        ELSE IF afterReg = ""
        THEN Breakdown(<<registerPart>>, Some(initialValue), Some(foundRegister), Null, Null)
        ELSE IF operator = ""
        THEN Breakdown(<<registerPart, Part(afterReg, "operator", Null, Null)>>,
                       Null, Some(foundRegister), Null, Null)
        ELSE IF afterOp = ""
        THEN Breakdown(<<registerPart, Part(OperatorLabel(operator), "operator", Null, Null)>>,
                       Null, Some(foundRegister), Some(operator), Null)
        ELSE IF rhsParts.overflow THEN BreakdownThrew
        ELSE Breakdown(<<registerPart, Part(OperatorLabel(operator), "operator", Null, Null)>>
                       \o rhsParts.parts
                       \o (IF unmatchedParens > 0
                           THEN <<Part(RepeatParen(unmatchedParens), "shadow", Null, Null)>>
                           ELSE <<>>),
                       IF operandValue # Null
                       THEN Some(PreviewOf(operator, initialValue, operandValue[1]))
                       ELSE Null,
                       Some(foundRegister), Some(operator), operandValue)

(***************************************************************************)
(* The calls.  A behaviour starts with a text to work on (args records how *)
(* the text was put together) and applies the subsystem's entry points.    *)
(***************************************************************************)

NoResult == [raised |-> FALSE, success |-> FALSE, registerStates |-> <<>>,
             error |-> Null, steps |-> <<>>]

NoCheck == [raised |-> FALSE, correct |-> FALSE, userResult |-> Null,
            expected |-> 0, error |-> Null, steps |-> <<>>]

\* The registers questions are asked about, the initial values tried and the
\* expected values compared with.
TargetRegisters == {"PORTA", "PORTB"}

InitialValues == {5, 165}

ExpectedValues == {5}

Question(register, initialValue, expectedValue) ==
    [register |-> register, initialValue |-> initialValue, expectedValue |-> expectedValue]

Questions ==
    {Question(r, iv, ev) : r \in TargetRegisters, iv \in InitialValues, ev \in ExpectedValues}

\* The date '': days are numbered from 1.
NoDate == 0

\* defaultStats(): nothing answered yet, level 1; a date is the number of
\* its day.
defaultStats ==
    [totalQuestions |-> 0, correctAnswers |-> 0, currentStreak |-> 0,
     bestStreak |-> 0, xp |-> 0, level |-> 1, fastestTime |-> 0,
     averageTime |-> 0, dailyStreak |-> 0, lastSessionDate |-> NoDate,
     topicStats |-> <<>>]

\* No answer has been recorded.
NoAnswer ==
    [xpGained |-> 0, leveledUp |-> FALSE, newLevel |-> 0, streakBonus |-> 0,
     timeBonus |-> 0, solveTimeMs |-> 0]

\* The day and the millisecond the page is loaded at.
StartOfClock == [day |-> 1, ms |-> 1000]

\* currentQuestion: null
NoQuestion ==
    [topic |-> "", difficulty |-> 0, register |-> "", initialValue |-> 0,
     expectedValue |-> 0, isReadState |-> FALSE, sampleAnswer |-> ""]

\* liveResult: null
NoLive == [present |-> FALSE, value |-> Null, error |-> Null, isCorrect |-> FALSE]

\* The page state as the module sets it up.  asked counts the questions
\* generated so far: currentQuestion is null while it is 0.  timerStart null
\* is 0, completed is whether a completed result is held, and selectedTopics
\* is 'all' or the listed topics.
InitialApp ==
    [asked |-> 0, currentQuestion |-> NoQuestion,
     selectedTopics |-> [all |-> TRUE, topics |-> {}],
     showHint |-> FALSE, showDashboard |-> FALSE, showAnswer |-> FALSE,
     showCheatsheet |-> FALSE, liveResult |-> NoLive, completed |-> FALSE,
     timerStart |-> 0, currentInput |-> ""]

\* No keydown listener on document, window.__mcuKeyHandler unset.
InitialPage == [keyHandlers |-> 0, stored |-> FALSE]

\* For the current question: the calls of recordAnswer, the live evaluations
\* that came out correct; and the unanswered questions the shortcut replaced.
NothingObserved == [recorded |-> 0, evaluatedCorrect |-> 0, skipped |-> 0]

\* Before any call: the text, the mapping evaluate will be given and the
\* question checkAnswer will be asked about.
Ready(text, how, seed, q) ==
    /\ pc = "ready"
    /\ code = text
    /\ args = how
    /\ seeded = seed
    /\ question = q
    /\ result = NoResult
    /\ check = NoCheck
    /\ breakdown = Breakdown(<<>>, Null, Null, Null, Null)
    /\ observed = NothingObserved
    /\ page = InitialPage
    /\ app = InitialApp
    /\ clock = StartOfClock
    /\ answer = NoAnswer
    /\ stats = defaultStats
    /\ pieces = <<>>

\* evaluate(code, seeded); seeded is the caller's mapping after the call.
Evaluate ==
    /\ pc = "ready"
    /\ result' = evaluate(code, seeded)
    /\ seeded' = CallerMappingAfter(code, seeded)
    /\ pc' = "evaluate"
    /\ UNCHANGED <<code, args, question, check, breakdown, pieces, stats, answer, clock, app, page, observed>>

\* checkAnswer(code, q.register, q.initialValue, q.expectedValue), as evaluateLive
\* calls it for the current question q; result and seeded are those of the call
\* of evaluate inside.
CheckAnswer ==
    /\ pc = "ready"
    /\ seeded' = SeedStates(question.register, question.initialValue)
    /\ result' = evaluate(code, seeded')
    /\ check' = CheckResult(result', question.register, question.initialValue,
                            question.expectedValue)
    /\ pc' = "checkAnswer"
    /\ UNCHANGED <<code, args, question, breakdown, pieces, stats, answer, clock, app, page, observed>>

\* parseExpression(code, q.register, q.initialValue) of the analyzer
ParseExpression ==
    /\ pc = "ready"
    /\ breakdown' = analyzerParseExpression(code, question.initialValue)
    /\ pc' = "parseExpression"
    /\ UNCHANGED <<code, args, seeded, question, result, check, pieces, stats, answer, clock, app, page, observed>>

Next == Evaluate \/ CheckAnswer \/ ParseExpression

(***************************************************************************)
(* Set, clear and toggle one bit of a byte.                                *)
(***************************************************************************)

BitIndexes == 0..(BitsPerPort - 1)

BitOpKinds == {"set", "clear", "toggle"}

\* `X = a; X |= (1<<k);`, `X = a; X &= ~(1<<k);`, `X = a; X ^= (1<<k);`
BitOpProgram(kind, a, k) ==
    "X = " \o ToDecimal(a) \o "; X "
    \o (CASE kind = "set" -> "|= (1<<" \o ToDecimal(k) \o ")"
          [] kind = "clear" -> "&= ~(1<<" \o ToDecimal(k) \o ")"
          [] kind = "toggle" -> "^= (1<<" \o ToDecimal(k) \o ")")
    \o ";"

InitBitOps ==
    \E kind \in BitOpKinds, a \in Byte, k \in BitIndexes :
        Ready(BitOpProgram(kind, a, k),
              [family |-> "bitop", kind |-> kind, a |-> a, k |-> k],
              SeedStates("X", ByteMask - a), Question("X", ByteMask - a, a))

SpecBitOps == InitBitOps /\ [][Next]_vars

\* Arithmetic on bits, independent of the evaluator's operators.
RECURSIVE TwoTo(_)
TwoTo(k) == IF k = 0 THEN 1 ELSE 2 * TwoTo(k - 1)

BitOf(a, k) == (a \div TwoTo(k)) % 2

\* a | (1<<k), a & ~(1<<k), a ^ (1<<k) on a byte
WithBit(kind, a, k) ==
    CASE kind = "set" -> a + (1 - BitOf(a, k)) * TwoTo(k)
      [] kind = "clear" -> a - BitOf(a, k) * TwoTo(k)
      [] kind = "toggle" -> a + (1 - 2 * BitOf(a, k)) * TwoTo(k)

\* C1: for every byte a and bit index k, evaluate on `X = a; X |= (1<<k);`
\* succeeds with X = a | (1<<k); with `&= ~(1<<k)` it ends with X = a & ~(1<<k),
\* and with `^= (1<<k)` with X = a ^ (1<<k), whatever X was seeded with.
C1_BitOps ==
    (pc = "evaluate" /\ args.family = "bitop") =>
        /\ result.success
        /\ "X" \in DOMAIN result.registerStates
        /\ result.registerStates["X"] = WithBit(args.kind, args.a, args.k)

\* C1's case: a bit operation that changed the byte has been evaluated.
C1_Witness ==
    /\ pc = "evaluate"
    /\ args.family = "bitop"
    /\ args.kind = "clear"
    /\ result.success
    /\ result.registerStates["X"] # args.a

(***************************************************************************)
(* Programs: sequences of statements, some of which do not parse.          *)
(***************************************************************************)

\* The longest program, in statements.
MaxStatements == 2

\* The statements programs are made of: assignments that parse, the four
\* kinds of parse failure, a character the tokenizer skips, and identifiers
\* that JavaScript objects inherit.  Each is one statement of the grammar.
Statements ==
    << "PORTA = 5;",
       "PORTA |= (1<<PA1);",
       "PORTB &= ~(1<<2);",
       "PORTC ^= 0x0F;",
       "PORTA = FOO;",
       "PORTA |= PORTB;",
       "PORTA = (1<<2;",
       "PORTA = |1;",
       "PORTA 5;",
       "PORTB = #3;",
       "PORTB = constructor;",
       "__proto__ = 5;",
       "toString |= 1;" >>

\* The statements joined by a space.
RECURSIVE ProgramText(_)
ProgramText(stmts) ==
    IF stmts = <<>> THEN ""
    ELSE IF Len(stmts) = 1 THEN Statements[stmts[1]]
    ELSE Statements[stmts[1]] \o " " \o ProgramText(Tail(stmts))

Programs == UNION {[1..n -> DOMAIN Statements] : n \in 0..MaxStatements}

\* The mapping evaluate is given, with the question checkAnswer is asked.
CallChoices ==
    {<<[r \in TargetRegisters |-> IF r = "PORTA" THEN 165 ELSE 60], q>> : q \in Questions}
    \cup {<<(<<>>), Question("PORTA", 5, 5)>>}

Init ==
    \E stmts \in Programs, choice \in CallChoices :
        Ready(ProgramText(stmts), [family |-> "program", stmts |-> stmts],
              choice[1], choice[2])

Spec == Init /\ [][Next]_vars

\* x | y, x & y, x ^ y on bytes, bit by bit from bit k up.
RECURSIVE Bitwise(_, _, _, _)
Bitwise(op, x, y, k) ==
    IF k = BitsPerPort THEN 0
    ELSE TwoTo(k) * (CASE op = "|" -> (IF BitOf(x, k) + BitOf(y, k) > 0 THEN 1 ELSE 0)
                       [] op = "&" -> BitOf(x, k) * BitOf(y, k)
                       [] op = "^" -> (BitOf(x, k) + BitOf(y, k)) % 2)
         + Bitwise(op, x, y, k + 1)

\* What a statement `R op operand` makes of R.
ExpectedAfter(op, before, operand) ==
    CASE op = "="  -> operand % (ByteMask + 1)
      [] op = "|=" -> Bitwise("|", before, operand, 0)
      [] op = "&=" -> Bitwise("&", before, operand, 0)
      [] op = "^=" -> Bitwise("^", before, operand, 0)

\* R's current value: 0 for a register neither seeded nor assigned.
CurrentValue(states, register) ==
    IF register \in DOMAIN states THEN states[register] ELSE 0

\* The register state after the statements recorded in steps, each changing
\* only its own register.
RECURSIVE Replay(_, _)
Replay(states, steps) ==
    IF steps = <<>> THEN states
    ELSE LET s == Head(steps)
             after == ExpectedAfter(s.op, CurrentValue(states, s.register), s.exprValue)
         IN  Replay([r \in DOMAIN states \cup {s.register} |->
                        IF r = s.register THEN after ELSE states[r]],
                    Tail(steps))

\* Each step records the before and after values of that replay.
RECURSIVE StepsFollow(_, _)
StepsFollow(states, steps) ==
    IF steps = <<>> THEN TRUE
    ELSE LET s == Head(steps)
         IN  /\ s.before = CurrentValue(states, s.register)
             /\ s.after = ExpectedAfter(s.op, s.before, s.exprValue)
             /\ StepsFollow(Replay(states, <<s>>), Tail(steps))

NumericOperands(steps) == \A i \in 1..Len(steps) : steps[i].exprValue \in Byte

\* C2: each parsed statement `R op operand` changes only register R: `=` sets
\* it to the operand, `|=`, `&=`, `^=` to before OR/AND/XOR operand, masked to
\* 8 bits, where before is R's current value in this call, 0 when R was
\* neither seeded nor assigned earlier; every other register keeps its value.
C2_StatementEffect ==
    (pc = "evaluate" /\ args.family = "program" /\ NumericOperands(result.steps)) =>
        /\ StepsFollow(seeded, result.steps)
        /\ result.registerStates = Replay(seeded, result.steps)

\* evaluate's result for the first k statements of the program alone.
PrefixResult(k) == evaluate(ProgramText(SubSeq(args.stmts, 1, k)), seeded)

\* C3: when a statement fails to parse, evaluate stops at that statement and
\* returns success=false with an error message; the register state and the
\* steps returned are exactly those of the statements before the failing one,
\* in order, and the failing statement and all after it have no effect.
C3_FailurePreservesPrefix ==
    (pc = "evaluate" /\ args.family = "program") =>
        IF result.success THEN Len(result.steps) = Len(args.stmts)
        ELSE /\ Len(result.steps) < Len(args.stmts)
             /\ result.error # Null
             /\ result.error[1] # ""
             /\ ~evaluate(Statements[args.stmts[Len(result.steps) + 1]], <<>>).success
             /\ PrefixResult(Len(result.steps)).success
             /\ result.steps = PrefixResult(Len(result.steps)).steps
             /\ result.registerStates = PrefixResult(Len(result.steps)).registerStates

\* C3's case: a program failed after a statement that changed a register.
C3_Witness ==
    /\ pc = "evaluate"
    /\ args.family = "program"
    /\ ~result.success
    /\ Len(result.steps) = 1
    /\ result.registerStates # seeded

\* The identifiers a statement's right-hand side uses.
RhsIdentifiers(text) ==
    {tokenize(text)[j].value : j \in {i \in 3..Len(tokenize(text)) :
                                        tokenize(text)[i].type = "IDENTIFIER"}}

\* The statement uses an identifier that is not a key of the symbol table.
UsesUnknownIdentifier(text) == \E name \in RhsIdentifiers(text) : name \notin DOMAIN allNamedBits

\* C4: a statement using, in primary position, an identifier that is not a
\* key of the symbol table makes evaluate return success=false with a
\* non-empty error, and no register changes beyond what earlier statements
\* committed.
C4_UnknownIdentifierFails ==
    (pc = "evaluate" /\ args.family = "program") =>
        \A i \in 1..Len(args.stmts) :
            UsesUnknownIdentifier(Statements[args.stmts[i]]) =>
                /\ ~result.success
                /\ result.error # Null
                /\ result.error[1] # ""
                /\ Len(result.steps) < i

\* C7: for any program and seeded values in [0,255], every value the strict
\* evaluator produces lies in [0,255]: every step's operand, before and after
\* value, and every register value of the returned state.
C7_ValuesAreBytes ==
    (pc \in {"evaluate", "checkAnswer"} /\ args.family = "program"
        /\ \A r \in DOMAIN seeded : seeded[r] \in Byte) =>
        /\ \A i \in 1..Len(result.steps) :
               /\ result.steps[i].exprValue \in Byte
               /\ result.steps[i].before \in Byte
               /\ result.steps[i].after \in Byte
        /\ \A r \in DOMAIN result.registerStates : result.registerStates[r] \in Byte

\* C9: evaluate never raises: every tokenizer or parser failure is returned
\* as success=false with a message; and checkAnswer, whenever evaluate reports
\* failure, returns correct=false, userResult=null and the evaluator's error,
\* even if the committed statements brought the target to the expected value.
C9_FailureIsData ==
    /\ (pc \in {"evaluate", "checkAnswer"}) =>
           /\ ~result.raised
           /\ (result.success <=> result.error = Null)
           /\ (~result.success => result.error[1] # "")
    /\ (pc = "checkAnswer" /\ ~result.success) =>
           /\ ~check.raised
           /\ check.correct = FALSE
           /\ check.userResult = Null
           /\ check.error = result.error

\* C9's case: checkAnswer on a program that failed after bringing the target
\* register to the expected value.
C9_Witness ==
    /\ pc = "checkAnswer"
    /\ ~result.success
    /\ question.register \in DOMAIN result.registerStates
    /\ result.registerStates[question.register] = question.expectedValue
    /\ question.initialValue # question.expectedValue

\* The after value of the last step on the register, or the initial value.
FinalValue(steps, register, initialValue) ==
    LET on == {i \in 1..Len(steps) : steps[i].register = register}
    IN  IF on = {} THEN initialValue
        ELSE steps[CHOOSE i \in on : \A j \in on : j <= i].after

\* C10: checkAnswer seeds the evaluation with exactly one register, the target
\* with the initial value; when evaluation succeeds, correct is true if and
\* only if the target's final value equals the expected value, and the
\* observed value is that final value, the initial value when no statement
\* assigned the target.
C10_CheckAnswer ==
    pc = "checkAnswer" =>
        /\ DOMAIN seeded = {question.register}
        /\ seeded[question.register] = question.initialValue
        /\ result.success =>
               /\ check.userResult = Some(FinalValue(result.steps, question.register,
                                                     question.initialValue))
               /\ check.correct = (FinalValue(result.steps, question.register,
                                              question.initialValue)
                                   = question.expectedValue)
               /\ check.expected = question.expectedValue

\* C10's case: a successful program assigned the target the expected value.
C10_Witness ==
    /\ pc = "checkAnswer"
    /\ result.success
    /\ check.correct
    /\ \E i \in 1..Len(result.steps) : result.steps[i].register = question.register
    /\ question.initialValue # question.expectedValue

(***************************************************************************)
(* Left shifts: `X = a << n;`                                              *)
(***************************************************************************)

\* The largest shift amount.
MaxShiftAmount == 255

ShiftOperands == {1, 3, 129, 255}

ShiftProgram(a, n) == "X = " \o ToDecimal(a) \o " << " \o ToDecimal(n) \o ";"

InitShift ==
    \E a \in ShiftOperands, n \in 0..MaxShiftAmount :
        Ready(ShiftProgram(a, n), [family |-> "shift", a |-> a, n |-> n],
              <<>>, Question("X", 0, a))

SpecShift == InitShift /\ [][Next]_vars

\* The low 8 bits of a * 2^n: nothing is left of a byte shifted by 8 or more.
LowByteOfShift(a, n) ==
    IF n >= BitsPerPort THEN 0 ELSE (a * TwoTo(n)) % (ByteMask + 1)

\* C8: for every 8-bit a and every shift amount n in [0,255], the strict
\* evaluator computes a << n as the low 8 bits of a * 2^n: bits shifted past
\* bit 7 are lost and the result is 0 whenever n >= 8, n = 32 and 64 included.
C8_ShiftTruncates ==
    (pc = "evaluate" /\ args.family = "shift") =>
        /\ result.success
        /\ result.registerStates = [r \in {"X"} |-> LowByteOfShift(args.a, args.n)]

(***************************************************************************)
(* Prefixes of valid statements, as typed into the analyzer.               *)
(***************************************************************************)

CandidateStatements ==
    { "PORTA |= (1<<PA1);",
      "PORTA |= (1<<PA1)|(1<<PA2);",
      "PORTA = 1<<(PA1|PA2);",
      "PORTB &= ~(1<<2);",
      "PORTC ^= 0x0F;",
      "DDRB = 0b1010 | 5;",
      "UCSR0B = (1<<RXEN0)|(1<<TXEN0);" }

\* The valid complete statements: those the strict evaluator accepts.
ValidStatements == {text \in CandidateStatements : evaluate(text, <<>>).success}

InitPrefix ==
    \E text \in ValidStatements :
        \E n \in 1..Len(text) :
            Ready(Substring(text, 0, n), [family |-> "prefix", statement |-> text, n |-> n],
                  <<>>, Question("PORTA", 165, 5))

SpecPrefix == InitPrefix /\ [][Next]_vars

\* C5: the partial analyzer returns a breakdown, without raising and without
\* diverging, for every non-empty prefix of every valid complete statement,
\* an OR of parenthesised shifts and a shift by a parenthesised OR included.
C5_AnalyzerReturns ==
    (pc = "parseExpression" /\ args.family = "prefix") => ~breakdown.threw

\* C13: the partial analyzer returns a non-null resultPreview only when an
\* assignment operator was detected and the right-hand side resolved to a
\* number, and then it is that operator applied to initialValue and the
\* operand, masked to 8 bits; in every other case (register only, operator with
\* empty or unresolvable right-hand side, no register) resultPreview is null.
C13_PreviewOnlyWhenResolved ==
    (pc = "parseExpression" /\ args.family = "prefix" /\ ~breakdown.threw) =>
        IF breakdown.operator # Null /\ breakdown.operandValue # Null
        THEN /\ breakdown.operandValue[1] \in Byte
             /\ breakdown.resultPreview
                    = Some(ExpectedAfter(breakdown.operator[1], question.initialValue,
                                         breakdown.operandValue[1]))
        ELSE breakdown.resultPreview = Null

\* The statements of this family are a register, a space, an operator, a
\* space and a right-hand side: where the register and the operator end.
TypedRegisterEnd == IndexOf(args.statement, " ")

TypedOperatorEnd ==
    TypedRegisterEnd + 1 + IndexOf(SubstringFrom(args.statement, TypedRegisterEnd + 1), " ")

TypedRegister == Substring(args.statement, 0, TypedRegisterEnd)

TypedOperator == Substring(args.statement, TypedRegisterEnd + 1, TypedOperatorEnd)

\* The right-hand side typed so far, without a semicolon at its end.
TypedRhs ==
    IF EndsWith(code, ";") THEN Substring(code, TypedOperatorEnd + 1, Len(code) - 1)
    ELSE SubstringFrom(code, TypedOperatorEnd + 1)

\* The open parentheses of s[0..i) that no later closing one matches, read
\* from the right: closers counts the closing ones still free.
RECURSIVE OpenUnmatched(_, _, _)
OpenUnmatched(s, i, closers) ==
    IF i = 0 THEN 0
    ELSE IF Ch(s, i - 1) = ")" THEN OpenUnmatched(s, i - 1, closers + 1)
    ELSE IF Ch(s, i - 1) = "(" /\ closers > 0 THEN OpenUnmatched(s, i - 1, closers - 1)
    ELSE IF Ch(s, i - 1) = "(" THEN 1 + OpenUnmatched(s, i - 1, 0)
    ELSE OpenUnmatched(s, i - 1, closers)

\* The places of the shadow parts of a breakdown.
ShadowPlaces == {j \in 1..Len(breakdown.parts) : breakdown.parts[j].type = "shadow"}

\* C20: for a register name, an assignment operator and a right-hand side
\* that does not reduce to a number, the partial analyzer returns the typed
\* register and operator, operandValue = null and resultPreview = null, and a
\* final shadow part of exactly n `)` when the right-hand side has n > 0
\* unmatched open parentheses, no shadow part when n = 0.
C20_UnresolvedRhs ==
    (/\ pc = "parseExpression"
     /\ args.family = "prefix"
     /\ args.n > TypedOperatorEnd + 1
     /\ tryEvaluatePartial(TypedRhs) = Null) =>
        /\ ~breakdown.threw
        /\ breakdown.registerName = Some(TypedRegister)
        /\ breakdown.operator = Some(TypedOperator)
        /\ breakdown.operandValue = Null
        /\ breakdown.resultPreview = Null
        /\ IF OpenUnmatched(TypedRhs, Len(TypedRhs), 0) > 0
           THEN /\ ShadowPlaces = {Len(breakdown.parts)}
                /\ breakdown.parts[Len(breakdown.parts)].text
                       = RepeatParen(OpenUnmatched(TypedRhs, Len(TypedRhs), 0))
           ELSE ShadowPlaces = {}

(***************************************************************************)
(* Complete right-hand sides over literals: `X = expr;`                    *)
(***************************************************************************)

\* The most binary operators in a right-hand side.
MaxOperators == 2

RhsOperands == {"1", "2", "3", "~1"}

RhsOperators == {"|", "^", "&", "<<", ">>"}

\* operand (operator operand)*, with up to n operators
RECURSIVE RhsChains(_)
RhsChains(n) ==
    IF n = 0 THEN RhsOperands
    ELSE RhsChains(n - 1)
         \cup {e \o op \o x : e \in RhsChains(n - 1), op \in RhsOperators, x \in RhsOperands}

\* The chains, and two chains joined with the second in parentheses.
RhsExpressions ==
    RhsChains(MaxOperators)
    \cup {e \o op \o "(" \o f \o ")" : e \in RhsOperands, op \in RhsOperators, f \in RhsChains(1)}

InitRhs ==
    \E expr \in RhsExpressions :
        Ready("X = " \o expr \o ";", [family |-> "rhs", expr |-> expr],
              <<>>, Question("X", 0, 5))

SpecRhs == InitRhs /\ [][Next]_vars

\* C6: for every complete right-hand side over |, ^, &, <<, >>, ~, parentheses
\* and 8-bit literals that the partial analyzer resolves to a number, the
\* operand value it reports equals the value the strict evaluator computes.
C6_SameOperand ==
    (pc = "parseExpression" /\ args.family = "rhs" /\ ~breakdown.threw
        /\ breakdown.operandValue # Null) =>
        /\ evaluate(code, <<>>).success
        /\ breakdown.operandValue = Some(evaluate(code, <<>>).steps[1].exprValue)

(***************************************************************************)
(* Long programs: one unit of text repeated.                               *)
(***************************************************************************)

\* The most repetitions of a unit.
MaxRepeats == 101

\* A unit, the statements it holds and their register: a `;` at the start of a
\* unit ends the statement before it or stands alone as an empty separator, a
\* `;` at its end is part of the statement.
RepeatUnits ==
    { [text |-> ";",       statements |-> 0, register |-> "X"],
      [text |-> ";X^=1",   statements |-> 1, register |-> "X"],
      [text |-> ";;X^=1",  statements |-> 1, register |-> "X"],
      [text |-> "x^=1;",   statements |-> 1, register |-> "x"] }

RECURSIVE Repeated(_, _)
Repeated(text, n) == IF n = 0 THEN "" ELSE text \o Repeated(text, n - 1)

InitRepeat ==
    \E unit \in RepeatUnits, n \in 0..MaxRepeats :
        Ready(Repeated(unit.text, n),
              [family |-> "repeat", unit |-> unit, n |-> n],
              <<>>, Question("X", 0, n % 2))

SpecRepeat == InitRepeat /\ [][Next]_vars

\* C11: whenever evaluate returns success=true, parsing stopped at EOF: every
\* statement of the input has been applied, so steps holds exactly one entry
\* per statement of the input, for any number of statements and of empty `;`
\* separators.
C11_SuccessAppliesAll ==
    (pc = "evaluate" /\ args.family = "repeat" /\ result.success) =>
        /\ Len(result.steps) = args.n * args.unit.statements
        /\ \A i \in 1..Len(result.steps) :
               /\ result.steps[i].register = args.unit.register
               /\ result.steps[i].op = "^="
               /\ result.steps[i].before = (i - 1) % 2
               /\ result.steps[i].after = i % 2

\* C12: the statement loop runs at most 100 iterations per call, so evaluate
\* returns, and its steps list never has more than 100 entries.
C12_AtMostHundredSteps ==
    (pc \in {"evaluate", "checkAnswer"} /\ args.family = "repeat") =>
        /\ Len(result.steps) <= SafetyLimit
        /\ Len(result.steps) <= args.n * args.unit.statements

\* C12's case: a program of more statements than the cap was evaluated, and
\* the cap's worth of them was applied.
C12_Witness ==
    /\ pc = "evaluate"
    /\ args.family = "repeat"
    /\ args.n * args.unit.statements > SafetyLimit
    /\ Len(result.steps) = SafetyLimit

(***************************************************************************)
(* Operator precedence: `X = a | b ^ c & d << e;` and its like.            *)
(***************************************************************************)

PrecedenceOperands == {1, 3, 6, 200}

PrecedenceForms == {"chain", "not", "shifts", "parens"}

\* The right-hand side of a form over the operands v.
PrecedenceText(form, v) ==
    CASE form = "chain" ->
             ToDecimal(v[1]) \o " | " \o ToDecimal(v[2]) \o " ^ " \o ToDecimal(v[3])
             \o " & " \o ToDecimal(v[4]) \o " << " \o ToDecimal(v[5])
      [] form = "not" -> "~" \o ToDecimal(v[1]) \o " << " \o ToDecimal(v[2])
      [] form = "shifts" ->
             ToDecimal(v[1]) \o " << " \o ToDecimal(v[2]) \o " << " \o ToDecimal(v[3])
      [] form = "parens" ->
             "(" \o ToDecimal(v[1]) \o " | " \o ToDecimal(v[2]) \o ") & " \o ToDecimal(v[3])

\* How many operands a form has.
PrecedenceArity(form) ==
    CASE form = "chain" -> 5 [] form = "not" -> 2 [] form = "shifts" -> 3 [] form = "parens" -> 3

InitPrecedence ==
    \E form \in PrecedenceForms :
        \E v \in [1..PrecedenceArity(form) -> PrecedenceOperands] :
            Ready("X = " \o PrecedenceText(form, v) \o ";",
                  [family |-> "precedence", form |-> form, v |-> v],
                  <<>>, Question("X", 0, v[1]))

SpecPrecedence == InitPrecedence /\ [][Next]_vars

\* The value of a form with its grouping written out, every intermediate
\* result masked to 8 bits.
Grouped(form, v) ==
    CASE form = "chain" ->
             OrMasked(v[1], XorMasked(v[2], AndMasked(v[3], ShlMasked(v[4], v[5]))))
      [] form = "not" -> ShlMasked(NotMasked(v[1]), v[2])
      [] form = "shifts" -> ShlMasked(ShlMasked(v[1], v[2]), v[3])
      [] form = "parens" -> AndMasked(OrMasked(v[1], v[2]), v[3])

\* The value of a form read from left to right without precedence.
LeftToRight(form, v) ==
    CASE form = "chain" ->
             ShlMasked(AndMasked(XorMasked(OrMasked(v[1], v[2]), v[3]), v[4]), v[5])
      [] form = "not" -> NotMasked(ShlMasked(v[1], v[2]))
      [] form = "shifts" -> ShlMasked(v[1], ShlMasked(v[2], v[3]))
      [] form = "parens" -> OrMasked(v[1], AndMasked(v[2], v[3]))

\* C14: the strict evaluator binds, from tightest to loosest, unary ~, then
\* << and >>, then &, then ^, then |; binary operators associate to the left
\* and parentheses override precedence: `a | b ^ c & d << e` is
\* a | (b ^ (c & (d << e))), `~a << b` is (~a) << b and `a << b << c` is
\* (a << b) << c, each intermediate result masked to 8 bits.
C14_Precedence ==
    (pc = "evaluate" /\ args.family = "precedence") =>
        /\ result.success
        /\ Len(result.steps) = 1
        /\ result.steps[1].exprValue = Grouped(args.form, args.v)
        /\ result.registerStates = [r \in {"X"} |-> Grouped(args.form, args.v)]

\* C14's case: a chain of all five operators whose value depends on the
\* grouping has been evaluated.
C14_Witness ==
    /\ pc = "evaluate"
    /\ args.family = "precedence"
    /\ args.form = "chain"
    /\ result.success
    /\ Grouped(args.form, args.v) # LeftToRight(args.form, args.v)

(***************************************************************************)
(* Texts: every string over a few characters, as the tokenizer's input.    *)
(***************************************************************************)

\* The longest text, in characters.
MaxTextLength == 3

\* The operator characters, a digit, a letter, a space and a character the
\* tokenizer does not know.
TextChars == {"|", "&", "^", "<", ">", "=", "1", "A", " ", "@"}

RECURSIVE Texts(_)
Texts(n) == IF n = 0 THEN {""} ELSE Texts(n - 1) \cup {t \o c : t \in Texts(n - 1), c \in TextChars}

InitText ==
    \E text \in Texts(MaxTextLength) :
        Ready(text, [family |-> "text"], <<>>, Question("A", 0, 1))

SpecText == InitText /\ [][Next]_vars

\* C15: tokenize returns for every input string: it scans left to right,
\* advancing by at least one character per step, and the returned sequence
\* ends with exactly one EOF token, which is its last element.
C15_TokenizeEndsWithEof ==
    (pc = "evaluate" /\ args.family = "text") =>
        /\ \A i \in 0..(Len(Trim(code)) - 1) :
               /\ ScanStep(Trim(code), ScanState(i, <<>>)).i > i
               /\ ScanStep(Trim(code), ScanState(i, <<>>)).i <= Len(Trim(code))
               /\ Len(ScanStep(Trim(code), ScanState(i, <<>>)).tokens) <= 1
        /\ ScanAll(Trim(code)).i = Len(Trim(code))
        /\ Len(tokenize(code)) >= 1
        /\ tokenize(code)[Len(tokenize(code))] = EofToken
        /\ \A j \in 1..(Len(tokenize(code)) - 1) : tokenize(code)[j].type # "EOF"

\* C15's case: a text with an unknown character between two tokens has been
\* tokenized.
C15_Witness ==
    /\ pc = "evaluate"
    /\ args.family = "text"
    /\ Ch(code, 1) = "@"
    /\ Len(tokenize(code)) = 3

(***************************************************************************)
(* Number literals: `X = ` followed by a literal and what follows it.      *)
(***************************************************************************)

\* The runs of digits after no prefix, after 0x and after 0b.
DecimalRuns ==
    {"0", "7", "09", "255", "256", "511", "1000", "65535", "4294967296",
     "9007199254740993"}

HexRuns == {"", "F", "ff", "1FF", "aB", "100", "20000000000001", "20000000000003"}

BinaryRuns == {"", "1", "101", "11111111", "100000001", "1111111100000000"}

Literals ==
    {[prefix |-> "", digits |-> d, radix |-> 10] : d \in DecimalRuns}
    \cup {[prefix |-> p, digits |-> d, radix |-> 16] : p \in {"0x", "0X"}, d \in HexRuns}
    \cup {[prefix |-> p, digits |-> d, radix |-> 2] : p \in {"0b", "0B"}, d \in BinaryRuns}

\* What follows the literal: nothing, a letter that is no digit, a semicolon,
\* the letter and the semicolon.
Followers == {"", "Q", ";", "Q;"}

LiteralRegisters == {"X", "PORTA"}

InitLiteral ==
    \E reg \in LiteralRegisters, lit \in Literals, f \in Followers :
        Ready(reg \o " = " \o lit.prefix \o lit.digits \o f,
              [family |-> "literal", register |-> reg, literal |-> lit, follower |-> f],
              <<>>, Question(reg, 0, 255))

SpecLiteral == InitLiteral /\ [][Next]_vars

\* The numeric value of a run of digits modulo 256, digit by digit.
RECURSIVE Residue(_, _)
Residue(digits, radix) ==
    IF digits = "" THEN 0
    ELSE (Residue(Substring(digits, 0, Len(digits) - 1), radix) * radix
          + IndexIn(HexDigitsLower, LowerChar(Ch(digits, Len(digits) - 1)))) % (ByteMask + 1)

\* C16: every NUMBER token carries a value in [0,255] equal to the literal's
\* numeric value modulo 256: a 0x/0X prefix consumes the hex digits that
\* follow, a 0b/0B prefix the binary digits, and anything else starting with a
\* digit the decimal digits (so 256 yields 0 and 0x1FF yields 0xFF).
C16_NumberTokens ==
    (pc = "evaluate" /\ args.family = "literal") =>
        /\ Len(tokenize(code)) >= 4
        /\ tokenize(code)[3].type = "NUMBER"
        /\ tokenize(code)[3].value = ToLowerCase(args.literal.prefix) \o args.literal.digits
        /\ tokenize(code)[3].numValue[1] \in Byte
        /\ tokenize(code)[3].numValue
               = Some(Residue(args.literal.digits, args.literal.radix))

\* The two-character operators and the type of the token of each.
TwoCharTypes ==
    {<<"|=", "OR_ASSIGN">>, <<"&=", "AND_ASSIGN">>, <<"^=", "XOR_ASSIGN">>,
     <<"<<", "LSHIFT">>, <<">>", "RSHIFT">>}

OneCharTypes == {"ASSIGN", "OR", "AND", "XOR", "NOT", "LPAREN", "RPAREN"}

\* The two characters at a position of a text, fewer at its end.
TwoAt(s, i) == Substring(s, i, IF i + 2 <= Len(s) THEN i + 2 ELSE Len(s))

\* C17: at every scan position, two characters that form |=, &=, ^=, << or >>
\* become one token of that type, and a one-character operator token is
\* emitted only where no two-character operator starts; so no OR, AND or XOR
\* token is ever followed by the ASSIGN of the character next to it.
C17_TwoCharPreferred ==
    (pc = "evaluate" /\ args.family = "text") =>
        /\ \A i \in 0..(Len(Trim(code)) - 1) :
             /\ \A p \in TwoCharTypes :
                    TwoAt(Trim(code), i) = p[1] =>
                        ScanStep(Trim(code), ScanState(i, <<>>))
                            = ScanState(i + 2, <<Token(p[2], p[1])>>)
             /\ (\E j \in 1..Len(ScanStep(Trim(code), ScanState(i, <<>>)).tokens) :
                     ScanStep(Trim(code), ScanState(i, <<>>)).tokens[j].type \in OneCharTypes)
                    => \A p \in TwoCharTypes : TwoAt(Trim(code), i) # p[1]
        /\ (\A i \in 0..(Len(code) - 1) : Ch(code, i) \notin {" ", "@", "<", ">"}) =>
               \A j \in 1..(Len(tokenize(code)) - 1) :
                   ~(/\ tokenize(code)[j].type \in {"OR", "AND", "XOR"}
                     /\ tokenize(code)[j + 1].type = "ASSIGN")

\* C17's case: `|==` has been tokenized, a two-character operator and then a
\* one-character one.
C17_Witness ==
    /\ pc = "evaluate"
    /\ args.family = "text"
    /\ code = "|=="
    /\ tokenize(code) = <<Token("OR_ASSIGN", "|="), Token("ASSIGN", "="), EofToken>>

(***************************************************************************)
(* Calls in a row: evaluate on a text and a mapping, other calls, and       *)
(* evaluate on the same text and mapping again.                             *)
(***************************************************************************)

\* The calls made in between, at most.
MaxBetween == 2

CallTexts ==
    {"PORTB |= 1;", "PORTB = 7; PORTA ^= 3;", "PORTB = 7; PORTA = FOO;",
     "PORTC = ~PORTB", "constructor = 9;", ""}

CallMappings ==
    {<<>>, [r \in {"PORTB"} |-> 5], [r \in {"PORTA", "PORTB"} |-> IF r = "PORTA" THEN 165 ELSE 5]}

InitCalls ==
    \E text \in CallTexts, given \in CallMappings :
        Ready(text, [family |-> "calls", given |-> given, first |-> NoResult, between |-> 0],
              given, Question("PORTB", 5, 5))

\* The first call's result is kept when the next call replaces it.
Remember ==
    [args EXCEPT !.first = IF pc = "evaluate" THEN result ELSE args.first,
                 !.between = args.between + 1]

\* evaluate(other, seeded): another text, the same caller's mapping.
EvaluateOther ==
    /\ pc \in {"evaluate", "between"}
    /\ args.family = "calls"
    /\ args.between < MaxBetween
    /\ \E other \in CallTexts \ {code} :
           /\ result' = evaluate(other, seeded)
           /\ seeded' = CallerMappingAfter(other, seeded)
    /\ args' = Remember
    /\ pc' = "between"
    /\ UNCHANGED <<code, question, check, breakdown, pieces, stats, answer, clock, app, page, observed>>

\* checkAnswer(other, ...): a call of evaluate on a mapping of checkAnswer's own.
CheckAnswerBetween ==
    /\ pc \in {"evaluate", "between"}
    /\ args.family = "calls"
    /\ args.between < MaxBetween
    /\ \E other \in CallTexts \ {code} :
           check' = checkAnswer(other, question.register, question.initialValue,
                                question.expectedValue)
    /\ args' = Remember
    /\ pc' = "between"
    /\ UNCHANGED <<code, seeded, question, result, breakdown, pieces, stats, answer, clock, app, page, observed>>

\* evaluate(code, seeded) once more.
EvaluateAgain ==
    /\ pc = "between"
    /\ args.family = "calls"
    /\ result' = evaluate(code, seeded)
    /\ seeded' = CallerMappingAfter(code, seeded)
    /\ pc' = "again"
    /\ UNCHANGED <<code, args, question, check, breakdown, pieces, stats, answer, clock, app, page, observed>>

NextCalls == Evaluate \/ EvaluateOther \/ CheckAnswerBetween \/ EvaluateAgain

SpecCalls == InitCalls /\ [][NextCalls]_vars

C19_TrailingLetterAccepted ==
    (pc = "evaluate" /\ code = "PORTA = 0xFQ;") =>
        /\ tokenize(code)[3] = NumberToken("0xF", 15)
        /\ result.success
        /\ result.error = Null
        /\ result.registerStates = [r \in {"PORTA"} |-> 15]

\* C19 amended: a literal followed by a letter that is none of its digits and
\* by a semicolon is tokenized as the number up to the letter and an
\* identifier; the assignment of the number is applied and recorded, and the
\* identifier then starts a statement with no assignment operator, so the
\* result is a failure with that error and with the register assigned.
C19_TrailingLetterFails ==
    (pc = "evaluate" /\ args.family = "literal" /\ args.follower = "Q;") =>
        /\ tokenize(code)[3].type = "NUMBER"
        /\ tokenize(code)[3].value = ToLowerCase(args.literal.prefix) \o args.literal.digits
        /\ tokenize(code)[4] = Token("IDENTIFIER", "Q")
        /\ ~result.raised
        /\ ~result.success
        /\ result.error = Some("Expected assignment operator but got ';'")
        /\ result.registerStates
               = [r \in {args.register} |-> tokenize(code)[3].numValue[1]]
        /\ Len(result.steps) = 1
        /\ result.steps[1].register = args.register
        /\ result.steps[1].after = tokenize(code)[3].numValue[1]

\* C19's case: `PORTA = 0xFQ;` has been evaluated, PORTA is 0x0F and the
\* result is a failure.
C19_Witness ==
    /\ pc = "evaluate"
    /\ code = "PORTA = 0xFQ;"
    /\ tokenize(code)[3] = NumberToken("0xF", 15)
    /\ result.registerStates = [r \in {"PORTA"} |-> 15]
    /\ ~result.success

(***************************************************************************)
(* Hex text of a byte: `X = <toHex(v)>;`                                   *)
(***************************************************************************)

\* Number.prototype.toString(16) for n >= 0: lower-case digits, no padding.
RECURSIVE ToString16(_)
ToString16(n) ==
    IF n < 16 THEN Ch(HexDigitsLower, n)
    ELSE ToString16(n \div 16) \o Ch(HexDigitsLower, n % 16)

UpperChar(c) ==
    IF c \in CharsOf(LowerLetters) THEN Ch(UpperLetters, IndexIn(LowerLetters, c)) ELSE c

RECURSIVE ToUpperCase(_)
ToUpperCase(s) ==
    IF s = "" THEN "" ELSE UpperChar(Ch(s, 0)) \o ToUpperCase(SubstringFrom(s, 1))

\* s.padStart(n, '0')
RECURSIVE PadStartZero(_, _)
PadStartZero(s, n) == IF Len(s) >= n THEN s ELSE PadStartZero("0" \o s, n)

\* toHex with a fault: the digits are those of the decimal text.
toHexDecimalDigits(n) == "0x" \o PadStartZero(ToDecimal(Mask8(n)), 2)

\* '0x' + (n & 0xFF).toString(16).toUpperCase().padStart(2, '0')
toHex(n) == "0x" \o PadStartZero(ToUpperCase(ToString16(Mask8(n))), 2)

InitHex ==
    \E v \in Byte :
        Ready("X = " \o toHex(v) \o ";", [family |-> "hex", v |-> v],
              SeedStates("X", 0), Question("X", 0, v))

SpecHex == InitHex /\ [][Next]_vars

\* C21: for every 8-bit value v, `X = <toHex(v)>;` evaluated with X initially
\* 0 succeeds and leaves X = v; toHex(v) is `0x` and two upper-case hex digits
\* and is tokenized as the number v.
C21_HexRoundTrip ==
    (pc = "evaluate" /\ args.family = "hex") =>
        /\ Len(toHex(args.v)) = 4
        /\ Substring(toHex(args.v), 0, 2) = "0x"
        /\ \A i \in 2..3 : Ch(toHex(args.v), i) \in CharsOf(HexDigitsUpper)
        /\ tokenize(toHex(args.v)) = <<NumberToken(toHex(args.v), args.v), EofToken>>
        /\ result.success
        /\ result.registerStates = [r \in {"X"} |-> args.v]

\* C21's case: `X = 0xAB;` has been evaluated with X initially 0.
C21_Witness ==
    /\ pc = "evaluate"
    /\ args.family = "hex"
    /\ args.v = 171
    /\ code = "X = 0xAB;"
    /\ seeded = [r \in {"X"} |-> 0]
    /\ result.registerStates["X"] = 171

(***************************************************************************)
(* One bit set twice, toggled twice: `X |= (1<<k); X |= (1<<k);`           *)
(***************************************************************************)

TwiceOperators == {"|=", "^="}

OnceProgram(op, k) == "X " \o op \o " (1<<" \o ToDecimal(k) \o ");"

TwiceProgram(op, k) == OnceProgram(op, k) \o " " \o OnceProgram(op, k)

InitTwice ==
    \E op \in TwiceOperators, a \in Byte, k \in BitIndexes :
        Ready(TwiceProgram(op, k), [family |-> "twice", op |-> op, a |-> a, k |-> k],
              SeedStates("X", a), Question("X", a, a))

SpecTwice == InitTwice /\ [][Next]_vars

\* C22: for every initial byte of X and every bit index k, `X |= (1<<k);`
\* evaluated twice in a row ends with the same X as evaluated once, the byte
\* with bit k set, and `X ^= (1<<k);` evaluated twice ends with the initial X.
C22_TwiceInARow ==
    (pc = "evaluate" /\ args.family = "twice") =>
        /\ result.success
        /\ Len(result.steps) = 2
        /\ evaluate(OnceProgram(args.op, args.k), seeded).success
        /\ args.op = "|=" =>
               /\ result.registerStates
                      = evaluate(OnceProgram(args.op, args.k), seeded).registerStates
               /\ result.registerStates = [r \in {"X"} |-> WithBit("set", args.a, args.k)]
        /\ args.op = "^=" =>
               /\ result.registerStates = [r \in {"X"} |-> args.a]
               /\ evaluate(OnceProgram(args.op, args.k), seeded).registerStates
                      = [r \in {"X"} |-> WithBit("toggle", args.a, args.k)]

\* C22's case: a bit that was clear in a byte with other bits set has been
\* set twice, or toggled twice.
C22_Witness ==
    /\ pc = "evaluate"
    /\ args.family = "twice"
    /\ args.a = 165
    /\ args.k = 1
    /\ result.steps[1].before = 165
    /\ result.steps[1].after = 167
    /\ result.steps[2].before = 167

(***************************************************************************)
(* The symbol table: `X = NAME;` for every name of allNamedBits.            *)
(***************************************************************************)

InitSymbol ==
    \E name \in DOMAIN allNamedBits :
        Ready("X = " \o name \o ";", [family |-> "symbol", name |-> name],
              <<>>, Question("X", 0, 0))

SpecSymbol == InitSymbol /\ [][Next]_vars

\* The entries of the curated table, in the order they are overlaid.
CuratedWrites == NamedBitWrites(1)

\* The port letters, as the claim lists them.
PortLetters == {"A", "B", "C", "D", "E", "F", "G", "H", "J", "K", "L"}

\* C23: every identifier of the symbol table maps to one bit index in [0,7];
\* for each of the 11 port letters and each i in 0..7 the names P<x><i>,
\* DD<x><i> and PIN<x><i> resolve to i; no curated peripheral bit name
\* collides with another one or with a port bit name, so overlaying the
\* curated table changes no entry.
C23_SymbolTable ==
    (pc = "evaluate" /\ args.family = "symbol") =>
        /\ allNamedBits[args.name] \in 0..7
        /\ result.success
        /\ result.registerStates = [r \in {"X"} |-> allNamedBits[args.name]]
        /\ Cardinality(PortLetters) = 11
        /\ {portNames[p] : p \in DOMAIN portNames} = PortLetters
        /\ \A x \in PortLetters, i \in 0..7 :
               \A name \in {"P" \o x \o ToDecimal(i), "DD" \o x \o ToDecimal(i),
                            "PIN" \o x \o ToDecimal(i)} :
                   /\ name \in DOMAIN allNamedBits
                   /\ allNamedBits[name] = i
        /\ \A j \in DOMAIN CuratedWrites :
               /\ CuratedWrites[j][1] \notin DOMAIN bitNameMap
               /\ allNamedBits[CuratedWrites[j][1]] = CuratedWrites[j][2]
               /\ \A h \in DOMAIN CuratedWrites :
                      CuratedWrites[h][1] = CuratedWrites[j][1] => h = j
        /\ \A name \in DOMAIN bitNameMap : allNamedBits[name] = bitNameMap[name]
        /\ Cardinality(DOMAIN allNamedBits)
               = 3 * 8 * Cardinality(PortLetters) + Len(CuratedWrites)

\* C23's case: a curated name and a port bit name have been resolved.
C23_Witness ==
    /\ pc = "evaluate"
    /\ args.family = "symbol"
    /\ args.name \in {"RXEN0", "DDL7"}
    /\ result.registerStates["X"] \in {4, 7}

(***************************************************************************)
(* splitOnOperator on short texts of letters, parentheses, `=` and          *)
(* operators.                                                               *)
(***************************************************************************)

\* The longest text split.
MaxSplitLength == 4

SplitOperators == {"|", "&", "^"}

\* The characters of the texts; # stands for the operator split on.
SplitChars == {"a", "(", ")", "=", "|", "#"}

RECURSIVE SplitTexts(_)
SplitTexts(n) ==
    IF n = 0 THEN {""} ELSE {""} \cup {c \o t : c \in SplitChars, t \in SplitTexts(n - 1)}

RECURSIVE WithOperator(_, _)
WithOperator(t, op) ==
    IF t = "" THEN ""
    ELSE (IF Ch(t, 0) = "#" THEN op ELSE Ch(t, 0)) \o WithOperator(SubstringFrom(t, 1), op)

InitSplit ==
    \E t \in SplitTexts(MaxSplitLength), op \in SplitOperators :
        Ready(WithOperator(t, op), [family |-> "split", op |-> op], <<>>,
              Question("X", 0, 0))

\* splitOnOperator(code, op)
SplitOnOperator ==
    /\ pc = "ready"
    /\ args.family = "split"
    /\ pieces' = splitOnOperator(code, args.op)
    /\ pc' = "splitOnOperator"
    /\ UNCHANGED <<code, args, seeded, question, result, check, breakdown, stats, answer, clock, app, page, observed>>

NextSplit == SplitOnOperator \/ ParseExpression

SpecSplit == InitSplit /\ [][NextSplit]_vars

\* The parentheses open before place i of s, an unmatched `)` closing nothing.
RECURSIVE OpenBefore(_, _)
OpenBefore(s, i) ==
    IF i = 0 THEN 0
    ELSE IF Ch(s, i - 1) = "(" THEN OpenBefore(s, i - 1) + 1
    ELSE IF Ch(s, i - 1) = ")" /\ OpenBefore(s, i - 1) > 0 THEN OpenBefore(s, i - 1) - 1
    ELSE OpenBefore(s, i - 1)

\* The places of op outside all parentheses and not followed by `=`.
TopLevelPlaces(s, op) ==
    {i \in 0..(Len(s) - 1) : Ch(s, i) = op /\ Ch(s, i + 1) # "=" /\ OpenBefore(s, i) = 0}

\* s from start on, cut at the places.
RECURSIVE CutAt(_, _, _)
CutAt(s, start, places) ==
    IF \A p \in places : p < start THEN <<SubstringFrom(s, start)>>
    ELSE <<Substring(s, start, CHOOSE p \in places : p >= start /\ \A o \in places : o >= start => p <= o)>>
         \o CutAt(s, 1 + (CHOOSE p \in places : p >= start /\ \A o \in places : o >= start => p <= o),
                  places)

\* An empty last piece is not returned.
WithoutEmptyLast(ps) == IF ps[Len(ps)] = "" THEN SubSeq(ps, 1, Len(ps) - 1) ELSE ps

\* C24: splitOnOperator(s, op) for op in {|, &, ^} cuts s exactly at the
\* occurrences of op that lie outside all parentheses and are not followed by
\* `=`, an occurrence after an unmatched `)` included; a text with no such
\* occurrence comes back as one piece.
C24_SplitAtTopLevel ==
    (pc = "splitOnOperator" /\ args.family = "split") =>
        pieces = WithoutEmptyLast(CutAt(code, 0, TopLevelPlaces(code, args.op)))

(***************************************************************************)
(* Gamification: recordAnswer on the Stats object.                         *)
(***************************************************************************)

\* Math.min and Math.max of two integers.
Min(a, b) == IF a < b THEN a ELSE b
Max(a, b) == IF a > b THEN a ELSE b

\* xpForLevel(level)
xpForLevel(level) == 50 * level * (level + 1)

\* Math.round of the fraction n / d (d > 0): the nearest integer, halves up.
RoundFraction(n, d) == (2 * n + d) \div (2 * d)

\* timeMultiplier as the fraction <<n, d>>; seconds = solveTimeMs / 1000.
timeMultiplier(solveTimeMs) ==
    IF solveTimeMs < 3000 THEN <<2, 1>>
    ELSE IF solveTimeMs < 6000 THEN <<15000 - solveTimeMs, 6000>>
    ELSE IF solveTimeMs < 12000 THEN <<36000 - solveTimeMs, 20000>>
    ELSE IF solveTimeMs < 30000 THEN <<120000 - solveTimeMs, 90000>>
    ELSE <<1, 1>>

\* streakBonus for the streak the answer has just extended.
streakBonus(currentStreak) == Min(20, (currentStreak \div 2) * 2)

\* topicStats after one more answer on the topic.
TopicCounted(topicStats, topic) ==
    [t \in (DOMAIN topicStats) \cup {topic} |->
        IF t = topic
        THEN IF t \in DOMAIN topicStats
             THEN [total |-> topicStats[t].total + 1, correct |-> topicStats[t].correct + 1]
             ELSE [total |-> 1, correct |-> 1]
        ELSE topicStats[t]]

\* dailyStreak after an answer on the day today.
DailyStreakOn(st, today) ==
    IF st.lastSessionDate = today THEN st.dailyStreak
    ELSE IF st.lastSessionDate # NoDate /\ st.lastSessionDate = today - 1 THEN st.dailyStreak + 1
    ELSE 1

\* The rolling average after a solve time.
AverageWith(averageTime, solveTimeMs) ==
    IF averageTime = 0 THEN solveTimeMs
    ELSE RoundFraction(9 * averageTime + solveTimeMs, 10)

\* A level that never moves.
LevelKept(xp, level) == level

\* while (xp >= xpForLevel(level)) level++
RECURSIVE LevelFor(_, _)
LevelFor(xp, level) ==
    IF xp >= xpForLevel(level) THEN LevelFor(xp, level + 1) ELSE level

\* recordAnswer(stats, difficulty, topic, solveTimeMs) on the day today:
\* the Stats object after the call and the AnswerResult returned.
recordAnswer(st, difficulty, topic, solveTimeMs, today) ==
    LET streak == st.currentStreak + 1
        baseXP == 5 + difficulty * 5
        m == timeMultiplier(solveTimeMs)
        bonus == streakBonus(streak)
        timeBonus == RoundFraction(baseXP * (m[1] - m[2]), m[2])
        xpGained == RoundFraction(baseXP * m[1], m[2]) + bonus
        xp == st.xp + xpGained
        level == LevelFor(xp, st.level)
    IN  [stats |->
            [totalQuestions |-> st.totalQuestions + 1,
             correctAnswers |-> st.correctAnswers + 1,
             currentStreak |-> streak,
             bestStreak |-> Max(streak, st.bestStreak),
             xp |-> xp,
             level |-> level,
             fastestTime |-> IF st.fastestTime = 0 \/ solveTimeMs < st.fastestTime
                             THEN solveTimeMs ELSE st.fastestTime,
             averageTime |-> AverageWith(st.averageTime, solveTimeMs),
             dailyStreak |-> DailyStreakOn(st, today),
             lastSessionDate |-> today,
             topicStats |-> TopicCounted(st.topicStats, topic)],
         answer |->
            [xpGained |-> xpGained, leveledUp |-> level > st.level, newLevel |-> level,
             streakBonus |-> bonus, timeBonus |-> timeBonus, solveTimeMs |-> solveTimeMs]]

\* The answers recorded: any difficulty, solve time, topic and day for the
\* first MaxVaried answers, the same kind of answer from then on, up to
\* MaxAnswers answers.  The solve times lie in every branch of the time
\* multiplier, at values where the products the code rounds are no halves.
MaxAnswers == 22
MaxVaried == 2
Difficulties == {1, 10}
SolveTimes == {0, 4500, 8000, 20000, 40000}
AnsweredTopics == {"set_bits"}
DaySteps == {0, 1, 2}
LaterAnswer == [difficulty |-> 1, solveTimeMs |-> 4500, topic |-> "hex_assign", days |-> 0]

AnswerInputs ==
    [difficulty : Difficulties, solveTimeMs : SolveTimes, topic : AnsweredTopics,
     days : DaySteps]

InitStats ==
    Ready("", [family |-> "stats"], <<>>, Question("X", 0, 0))

\* recordAnswer(stats, ...), the day having moved on by a.days.
RecordAnswer ==
    /\ pc \in {"ready", "recordAnswer"}
    /\ args.family = "stats"
    /\ stats.totalQuestions < MaxAnswers
    /\ \E a \in (IF stats.totalQuestions < MaxVaried THEN AnswerInputs ELSE {LaterAnswer}) :
        /\ clock' = [clock EXCEPT !.day = clock.day + a.days]
        /\ stats' = recordAnswer(stats, a.difficulty, a.topic, a.solveTimeMs,
                                 clock.day + a.days).stats
        /\ answer' = recordAnswer(stats, a.difficulty, a.topic, a.solveTimeMs,
                                  clock.day + a.days).answer
    /\ pc' = "recordAnswer"
    /\ UNCHANGED <<code, args, seeded, question, result, check, breakdown, pieces, app, page, observed>>

NextStats == RecordAnswer

SpecStats == InitStats /\ [][NextStats]_vars

\* C26: the streak bonus of a recorded answer is min(20, 2 * s), s being
\* currentStreak after the answer has been counted.
C26_StreakBonus ==
    pc = "recordAnswer" => answer.streakBonus = Min(20, 2 * stats.currentStreak)

\* The level is the one the XP thresholds give, and the counters agree.
StatsConsistent(st) ==
    /\ xpForLevel(st.level - 1) <= st.xp
    /\ st.xp < xpForLevel(st.level)
    /\ st.totalQuestions = st.correctAnswers
    /\ st.currentStreak <= st.bestStreak

\* C30: after any sequence of recordAnswer calls from the default stats,
\* xpForLevel(level - 1) <= xp < xpForLevel(level), totalQuestions =
\* correctAnswers and currentStreak <= bestStreak, and no call lowers xp or
\* level.
C30_LevelFollowsXp ==
    /\ [](args.family = "stats" => StatsConsistent(stats))
    /\ [][args.family = "stats" => (stats'.xp >= stats.xp /\ stats'.level >= stats.level)]_vars

\* An answer has taken the stats from level 2 or more up to the next level.
C30_Witness ==
    /\ pc = "recordAnswer"
    /\ args.family = "stats"
    /\ answer.leveledUp
    /\ stats.level >= 3
    /\ stats.currentStreak = stats.bestStreak
    /\ stats.xp >= xpForLevel(stats.level - 1)

(***************************************************************************)
(* The question generator (generator.ts).  A generator is the set of the   *)
(* questions its random draws can give.                                    *)
(***************************************************************************)

\* A Question, without the texts shown to the user.
GeneratedQuestion(topic, difficulty, register, initialValue, expectedValue, isReadState, sampleAnswer) ==
    [topic |-> topic, difficulty |-> difficulty, register |-> register,
     initialValue |-> initialValue, expectedValue |-> expectedValue,
     isReadState |-> isReadState, sampleAnswer |-> sampleAnswer]

\* randInt(min, max)
randInt(min, max) == min..max

\* The ascending sequence of a set of numbers (sort((a, b) => a - b)).
RECURSIVE Ascending(_)
Ascending(S) ==
    IF S = {} THEN <<>>
    ELSE LET m == CHOOSE x \in S : \A y \in S : x <= y
         IN  <<m>> \o Ascending(S \ {m})

\* randBits(count): count different bit indexes, sorted.
randBits(count) ==
    {Ascending(S) : S \in {T \in SUBSET (0..(BitsPerPort - 1)) : Cardinality(T) = count}}

\* randInt(0, 255) for an initial value, over a few bytes.
InitialDraws == {0, 90, 165, 255}

\* getCommonPort(): the ports A to D, as indexes of portNames.
getCommonPort == {p \in DOMAIN portNames : portNames[p] \in {"A", "B", "C", "D"}}

\* ports[p].port
PortRegister(p) == "PORT" \o portNames[p]

\* for (const b of bits) v |= (1 << b), then & 0xFF; with &= ~(1 << b); with ^=
RECURSIVE SetAll(_, _), ClearAll(_, _), ToggleAll(_, _)
SetAll(v, bits) ==
    IF bits = <<>> THEN Mask8(v) ELSE SetAll(BitOr(v, ShlLow8(1, bits[1])), Tail(bits))

\* The clearing loop with a fault: no bit is cleared.
ClearAllSkipped(v, bits) == Mask8(v)

ClearAll(v, bits) ==
    IF bits = <<>> THEN Mask8(v)
    ELSE ClearAll(BitAnd(v, NotMasked(ShlLow8(1, bits[1]))), Tail(bits))

ToggleAll(v, bits) ==
    IF bits = <<>> THEN Mask8(v) ELSE ToggleAll(BitXor(v, ShlLow8(1, bits[1])), Tail(bits))

\* names.map(n => `(1<<${n})`).join('|')
RECURSIVE MaskList(_)
MaskList(names) ==
    IF names = <<>> THEN ""
    ELSE "(1<<" \o names[1] \o ")" \o (IF Len(names) > 1 THEN "|" ELSE "") \o MaskList(Tail(names))

\* bits.map(b => port.bits[b])
PortBits(p, bits) == [i \in DOMAIN bits |-> PortBit(p, bits[i])]

\* The bit counts the difficulty allows for set, clear and toggle questions.
BitCounts(difficulty) ==
    IF difficulty <= 3 THEN {1} ELSE IF difficulty <= 6 THEN randInt(1, 3) ELSE randInt(2, 4)

genHexAssign(difficulty) ==
    {GeneratedQuestion("hex_assign", difficulty, PortRegister(p), 0, SetAll(0, bits), FALSE,
                       PortRegister(p) \o " = " \o toHex(SetAll(0, bits)) \o ";") :
        p \in getCommonPort,
        bits \in UNION {randBits(Min(8, n)) :
                          n \in IF difficulty <= 3 THEN randInt(1, 3)
                                ELSE IF difficulty <= 6 THEN randInt(2, 5) ELSE randInt(3, 8)}}

genSetBits(difficulty) ==
    {GeneratedQuestion("set_bits", difficulty, PortRegister(p), initial, SetAll(initial, bits),
                       FALSE,
                       IF Len(bits) = 1
                       THEN PortRegister(p) \o " |= (1<<" \o PortBit(p, bits[1]) \o ");"
                       ELSE PortRegister(p) \o " |= " \o MaskList(PortBits(p, bits)) \o ";") :
        p \in getCommonPort,
        initial \in IF difficulty <= 4 THEN {0} ELSE InitialDraws,
        bits \in UNION {randBits(n) : n \in BitCounts(difficulty)}}

genClearBits(difficulty) ==
    {GeneratedQuestion("clear_bits", difficulty, PortRegister(p), SetAll(drawn, bits),
                       ClearAll(SetAll(drawn, bits), bits), FALSE,
                       IF Len(bits) = 1
                       THEN PortRegister(p) \o " &= ~(1<<" \o PortBit(p, bits[1]) \o ");"
                       ELSE PortRegister(p) \o " &= ~(" \o MaskList(PortBits(p, bits)) \o ");") :
        p \in getCommonPort,
        drawn \in InitialDraws,
        bits \in UNION {randBits(n) : n \in BitCounts(difficulty)}}

genToggleBits(difficulty) ==
    {GeneratedQuestion("toggle_bits", difficulty, PortRegister(p), initial,
                       ToggleAll(initial, bits), FALSE,
                       IF Len(bits) = 1
                       THEN PortRegister(p) \o " ^= (1<<" \o PortBit(p, bits[1]) \o ");"
                       ELSE PortRegister(p) \o " ^= " \o MaskList(PortBits(p, bits)) \o ";") :
        p \in getCommonPort,
        initial \in InitialDraws,
        bits \in UNION {randBits(n) : n \in BitCounts(difficulty)}}

\* allBits.slice(0, mid) and allBits.slice(mid), mid = Math.ceil(length / 2)
FirstHalf(allBits) == SubSeq(allBits, 1, (Len(allBits) + 1) \div 2)
SecondHalf(allBits) == SubSeq(allBits, (Len(allBits) + 1) \div 2 + 1, Len(allBits))

genCombinedOps(difficulty) ==
    {GeneratedQuestion("combined_ops", difficulty, PortRegister(p), initial,
                       ClearAll(SetAll(initial, FirstHalf(allBits)), SecondHalf(allBits)), FALSE,
                       PortRegister(p) \o " |= " \o MaskList(PortBits(p, FirstHalf(allBits)))
                       \o ";\n" \o PortRegister(p) \o " &= ~("
                       \o MaskList(PortBits(p, SecondHalf(allBits))) \o ");") :
        p \in getCommonPort,
        initial \in InitialDraws,
        allBits \in UNION {randBits(Min(6, n)) : n \in randInt(3, 5)}}

\* The picks of count different entries of a register's named bits, in the
\* order they are picked; at most MaxChosen are picked.
MaxChosen == 3

RECURSIVE Picks(_, _)
Picks(entries, count) ==
    IF count = 0 THEN {<<>>}
    ELSE UNION {{<<e>> \o rest : rest \in Picks(entries \ {e}, count - 1)} : e \in entries}

EntryNames(chosen) == [i \in DOMAIN chosen |-> chosen[i][1]]

EntryBits(chosen) == [i \in DOMAIN chosen |-> chosen[i][2]]

\* The picks genNamedBits can make from a register's named bits.
ChosenFrom(bits, difficulty) ==
    UNION {Picks({bits[i] : i \in DOMAIN bits}, Min(Len(bits), n)) :
             n \in {c \in (IF difficulty <= 4 THEN randInt(1, 2) ELSE randInt(2, 4)) :
                      c <= MaxChosen}}

genNamedBits(difficulty) ==
    UNION {{GeneratedQuestion("named_bits", difficulty, namedRegisterBits[r][1], 0,
                              SetAll(0, EntryBits(chosen)), FALSE,
                              namedRegisterBits[r][1] \o " = " \o MaskList(EntryNames(chosen))
                              \o ";") :
               chosen \in ChosenFrom(namedRegisterBits[r][2], difficulty)} :
             r \in DOMAIN namedRegisterBits}

\* The topics whose answer is code.
WriteTopics ==
    {"hex_assign", "set_bits", "clear_bits", "toggle_bits", "combined_ops", "named_bits"}

\* generators[topic](difficulty) for the topics whose answer is code
generators(topic, difficulty) ==
    CASE topic = "hex_assign" -> genHexAssign(difficulty)
      [] topic = "set_bits" -> genSetBits(difficulty)
      [] topic = "clear_bits" -> genClearBits(difficulty)
      [] topic = "toggle_bits" -> genToggleBits(difficulty)
      [] topic = "combined_ops" -> genCombinedOps(difficulty)
      [] topic = "named_bits" -> genNamedBits(difficulty)

\* The difficulties generateQuestion hands to a generator.
GeneratedDifficulties == 1..10

InitGenerated ==
    \E topic \in WriteTopics, difficulty \in GeneratedDifficulties :
        \E q \in generators(topic, difficulty) :
            Ready(q.sampleAnswer, [family |-> "generated", topic |-> topic], <<>>,
                  Question(q.register, q.initialValue, q.expectedValue))

NextGenerated == CheckAnswer

SpecGenerated == InitGenerated /\ [][NextGenerated]_vars

\* C28: for every question a generator of a code topic can produce,
\* checkAnswer(sampleAnswer, register, initialValue, expectedValue) returns
\* correct = true, and initialValue and expectedValue are bytes.
C28_SampleAnswerCorrect ==
    args.family = "generated" =>
        /\ question.initialValue \in 0..ByteMask
        /\ question.expectedValue \in 0..ByteMask
        /\ pc = "checkAnswer" => check.correct

\* The sample answer of a combined_ops question has been checked.
C28_Witness ==
    /\ args.family = "generated"
    /\ args.topic = "combined_ops"
    /\ pc = "checkAnswer"
    /\ check.correct
    /\ question.expectedValue # question.initialValue

\* genReadState(difficulty): the values numOps drawn operations can leave.
RECURSIVE ReadStateOps(_, _)
ReadStateOps(state, numOps) ==
    IF numOps = 0 THEN {state}
    ELSE UNION {UNION {ReadStateOps(IF opType = 0 THEN SetAll(state, <<bit>>)
                                    ELSE IF opType = 1 THEN ClearAll(state, <<bit>>)
                                    ELSE ToggleAll(state, <<bit>>),
                                    numOps - 1) :
                          opType \in randInt(0, 2)} :
                  bit \in randInt(0, 7)}

genReadState(difficulty) ==
    UNION {UNION {{GeneratedQuestion("read_state", difficulty, PortRegister(p), initial, state,
                                     TRUE, toHex(state)) :
                      state \in ReadStateOps(initial,
                                             IF difficulty <= 3 THEN 1
                                             ELSE IF difficulty <= 6 THEN 2 ELSE 3)} :
                    initial \in InitialDraws} :
             p \in getCommonPort}

\* ALL_TOPICS and topicUnlockLevel
ALL_TOPICS ==
    <<"hex_assign", "set_bits", "clear_bits", "toggle_bits", "combined_ops", "named_bits",
      "read_state">>

topicUnlockLevel ==
    [t \in {ALL_TOPICS[i] : i \in DOMAIN ALL_TOPICS} |->
        CASE t = "hex_assign" -> 1 [] t = "set_bits" -> 1 [] t = "clear_bits" -> 2
          [] t = "toggle_bits" -> 3 [] t = "combined_ops" -> 4 [] t = "named_bits" -> 5
          [] t = "read_state" -> 2]

\* getAvailableTopics(playerLevel)
getAvailableTopics(playerLevel) ==
    {t \in DOMAIN topicUnlockLevel : playerLevel >= topicUnlockLevel[t]}

\* generateQuestion(selectedTopics, playerLevel): the topics it draws from,
\* the difficulties it can pass on, and the questions it can return.
AvailableTopics(selectedTopics, playerLevel) ==
    LET available == IF selectedTopics.all THEN getAvailableTopics(playerLevel)
                     ELSE selectedTopics.topics \cap getAvailableTopics(playerLevel)
    IN  IF available = {} THEN {"hex_assign", "set_bits"} ELSE available

ScaledDifficulties(playerLevel) ==
    LET baseDifficulty == Min(10, (12 * playerLevel + 9) \div 10)
    IN  {Max(1, Min(10, baseDifficulty + r)) : r \in randInt(0 - 2, 1)}

GeneratedBy(topic, difficulty) ==
    IF topic = "read_state" THEN genReadState(difficulty) ELSE generators(topic, difficulty)

generateQuestion(selectedTopics, playerLevel) ==
    UNION {UNION {GeneratedBy(topic, difficulty) :
                    difficulty \in ScaledDifficulties(playerLevel)} :
             topic \in AvailableTopics(selectedTopics, playerLevel)}

(***************************************************************************)
(* The page (main.ts).  The DOM is a function of the state, rendered again *)
(* by every handler that changes what is shown; a handler is modelled on   *)
(* the record w of what it reads and writes: app, stats, answer, page and  *)
(* observed.                                                               *)
(***************************************************************************)

\* attachEventListeners(): the keyboard shortcut.  While a completed result
\* is held a new keydown listener is added and stored; otherwise the stored
\* one is removed.
attachEventListeners(w) ==
    IF w.app.completed
    THEN [w EXCEPT !.page = [keyHandlers |-> w.page.keyHandlers + 1, stored |-> TRUE]]
    ELSE IF w.page.stored
    THEN [w EXCEPT !.page = [keyHandlers |-> w.page.keyHandlers - 1, stored |-> FALSE]]
    ELSE w

\* render()
render(w) == attachEventListeners(w)

\* generateNext(), q being the question generateQuestion returns; byShortcut
\* tells the history that a keydown listener made the call.
generateNext(w, q, byShortcut) ==
    render([w EXCEPT
        !.page = IF w.page.stored
                 THEN [keyHandlers |-> w.page.keyHandlers - 1, stored |-> FALSE]
                 ELSE w.page,
        !.app = [w.app EXCEPT !.asked = @ + 1, !.currentQuestion = q, !.liveResult = NoLive,
                              !.completed = FALSE, !.showHint = FALSE, !.showAnswer = FALSE,
                              !.timerStart = 0, !.currentInput = ""],
        !.observed = [recorded |-> 0, evaluatedCorrect |-> 0,
                      skipped |-> w.observed.skipped
                                  + (IF byShortcut /\ w.app.asked > 0 /\ ~w.app.completed
                                     THEN 1 ELSE 0)]])

\* handleAutoSubmit() at the time now of the day today
handleAutoSubmit(w, now, today) ==
    IF w.app.asked = 0 \/ w.app.completed \/ w.app.timerStart = 0 THEN w
    ELSE LET r == recordAnswer(w.stats, w.app.currentQuestion.difficulty,
                               w.app.currentQuestion.topic, now - w.app.timerStart, today)
         IN  render([w EXCEPT !.stats = r.stats, !.answer = r.answer,
                              !.app = [w.app EXCEPT !.completed = TRUE],
                              !.observed = [w.observed EXCEPT !.recorded = @ + 1]])

\* The value a read-state answer denotes: hex, 0b binary, eight binary
\* digits or decimal; Null when it is none of them or parses to NaN.
TypedValue(cleaned) ==
    IF StartsWith(cleaned, "0x") THEN ParseInt(cleaned, 16)
    ELSE IF StartsWith(cleaned, "0b") THEN ParseInt(SubstringFrom(cleaned, 2), 2)
    ELSE IF Len(cleaned) = 8 /\ RunEnd(cleaned, 0, BinChars) = 8 THEN ParseInt(cleaned, 2)
    ELSE IF cleaned # "" /\ RunEnd(cleaned, 0, DigitChars) = Len(cleaned) THEN ParseInt(cleaned, 10)
    ELSE Null

\* The LiveResult of a trimmed, non-empty input for the question q.
LiveResultOf(q, trimmed) ==
    IF q.isReadState
    THEN LET userValue == TypedValue(RemoveSpaces(ToLowerCase(trimmed)))
         IN  IF userValue = Null
             THEN [present |-> TRUE, value |-> Null, error |-> Null, isCorrect |-> FALSE]
             ELSE [present |-> TRUE, value |-> Some(MaskParsed(userValue)), error |-> Null,
                   isCorrect |-> MaskParsed(userValue) = q.expectedValue]
    ELSE LET c == checkAnswer(trimmed, q.register, q.initialValue, q.expectedValue)
         IN  IF c.raised
             THEN [present |-> TRUE, value |-> Null, error |-> Null, isCorrect |-> FALSE]
             ELSE [present |-> TRUE, value |-> c.userResult, error |-> c.error,
                   isCorrect |-> c.correct]

\* Of the questions generateQuestion can return, the ones asked here: the
\* easiest ones on PORTB that start from 0 and end with bit 0 alone set.
AskedDifficulties == {1}

Asked(q) == q.register = "PORTB" /\ q.initialValue = 0 /\ q.expectedValue = 1

\* The topic chips clicked.
ClickedChips == {"all", "read_state"}

\* The values selectedTopics takes and the levels of the player, and for each
\* the questions asked.
SelectionList ==
    <<[all |-> TRUE, topics |-> {}], [all |-> FALSE, topics |-> {"read_state"}]>>

MaxLevel == 2

AskedQuestions ==
    SubSeq([i \in 1..(MaxLevel * Len(SelectionList)) |->
               LET selectedTopics == SelectionList[((i - 1) % Len(SelectionList)) + 1]
                   playerLevel == ((i - 1) \div Len(SelectionList)) + 1
               IN  {q \in UNION {UNION {GeneratedBy(topic, difficulty) :
                                          difficulty \in AskedDifficulties
                                                          \cap ScaledDifficulties(playerLevel)} :
                                   topic \in AvailableTopics(selectedTopics, playerLevel)} :
                      Asked(q)}],
           1, MaxLevel * Len(SelectionList))

AskedFor(selectedTopics, playerLevel) ==
    AskedQuestions[(playerLevel - 1) * Len(SelectionList)
                   + (CHOOSE i \in DOMAIN SelectionList : SelectionList[i] = selectedTopics)]

\* What is typed into the answer field.
InputTexts == {"", "PORTB = 0x01;", " 0X01 "}

\* The live results of the texts typed for the questions asked, worked out
\* once: <<question, trimmed text, LiveResultOf(question, trimmed text)>>.
LiveResults ==
    {<<q, t, LiveResultOf(q, t)>> :
        q \in UNION {AskedQuestions[i] : i \in DOMAIN AskedQuestions},
        t \in {Trim(text) : text \in InputTexts} \ {""}}

LiveResultAt(q, trimmed) ==
    (CHOOSE r \in LiveResults : r[1] = q /\ r[2] = trimmed)[3]

\* evaluateLive past its first test: the input is kept and evaluated.
LiveEvaluation(w, inputValue, now, today) ==
    IF Trim(inputValue) = ""
    THEN [w EXCEPT !.app = [w.app EXCEPT !.currentInput = inputValue, !.liveResult = NoLive]]
    ELSE LET live == LiveResultAt(w.app.currentQuestion, Trim(inputValue))
             typed == [w EXCEPT
                          !.app = [w.app EXCEPT
                                      !.currentInput = inputValue,
                                      !.timerStart = IF @ = 0 THEN now ELSE @,
                                      !.liveResult = live],
                          !.observed = [w.observed EXCEPT
                                           !.evaluatedCorrect =
                                               @ + (IF live.isCorrect THEN 1 ELSE 0)]]
         IN  IF live.isCorrect THEN handleAutoSubmit(typed, now, today) ELSE typed

\* evaluateLive with a fault: a completed question is evaluated again.
evaluateLiveCompletedToo(w, inputValue, now, today) ==
    IF w.app.asked = 0 THEN w ELSE LiveEvaluation(w, inputValue, now, today)

\* evaluateLive(inputValue) at the time now of the day today
evaluateLive(w, inputValue, now, today) ==
    IF w.app.asked = 0 \/ w.app.completed THEN w
    ELSE LiveEvaluation(w, inputValue, now, today)

\* The listeners that answer a keydown, in the order they were added: the
\* ones no longer stored, then the stored one.  Each calls generateNext,
\* and the first call removes the stored one before its turn.
ShortcutCalls(pg) ==
    LET left == pg.keyHandlers - (IF pg.stored THEN 1 ELSE 0)
    IN  IF left > 0 THEN left ELSE IF pg.stored THEN 1 ELSE 0

\* calls calls of generateNext in a row, q being the question the last one
\* generates (the ones before are replaced at once).
RECURSIVE CallGenerateNext(_, _, _)
CallGenerateNext(w, q, calls) ==
    IF calls = 0 THEN w ELSE CallGenerateNext(generateNext(w, q, TRUE), q, calls - 1)

\* The keydown listeners on key with the element of tag activeTag focused.
keydown(w, key, activeTag, q) ==
    IF key \notin {"Enter", " "} \/ w.app.showCheatsheet \/ activeTag \in {"INPUT", "TEXTAREA"}
    THEN w
    ELSE CallGenerateNext(w, q, ShortcutCalls(w.page))

\* The events of the page: at most MaxAsked questions are generated and at
\* most MaxKeyHandlers keydown listeners are on document at a time.
MaxAsked == 3
MaxKeyHandlers == 2

\* The stats loadStats() finds: none saved, or the ones three answers leave.
SavedStats ==
    recordAnswer(recordAnswer(recordAnswer(defaultStats, 3, "hex_assign", 0, 1).stats,
                              3, "hex_assign", 0, 1).stats,
                 3, "hex_assign", 0, 1).stats

\* The keys pressed and the times Date.now() reads.
Keys == {"Enter", " ", "a"}
ClockReadings == {1000, 6000}

InitUi ==
    \E loaded \in {defaultStats, SavedStats} :
        /\ pc = "ready"
        /\ code = ""
        /\ args = [family |-> "ui"]
        /\ seeded = <<>>
        /\ question = Question("X", 0, 0)
        /\ result = NoResult
        /\ check = NoCheck
        /\ breakdown = Breakdown(<<>>, Null, Null, Null, Null)
        /\ pieces = <<>>
        /\ stats = loaded
        /\ answer = NoAnswer
        /\ clock = StartOfClock
        /\ app = InitialApp
        /\ page = InitialPage
        /\ observed = NothingObserved

\* What the handlers read and write.
World == [app |-> app, stats |-> stats, answer |-> answer, page |-> page, observed |-> observed]

\* The handler named has run and left w.
Handled(name, w) ==
    /\ args.family = "ui"
    /\ pc' = name
    /\ app' = w.app
    /\ stats' = w.stats
    /\ answer' = w.answer
    /\ page' = w.page
    /\ observed' = w.observed
    /\ UNCHANGED <<code, args, seeded, question, result, check, breakdown, pieces>>

\* A render that adds a keydown listener is within the bound.
RenderBounded == ~app.completed \/ page.keyHandlers < MaxKeyHandlers

\* The answer field is in the DOM.
InputShown == ~app.showDashboard /\ app.asked > 0 /\ ~app.completed

\* Click on nav-practice / nav-dashboard
ClickNavPractice ==
    /\ RenderBounded
    /\ Handled("nav-practice", render([World EXCEPT !.app.showDashboard = FALSE]))
    /\ UNCHANGED clock

ClickNavDashboard ==
    /\ RenderBounded
    /\ Handled("nav-dashboard", render([World EXCEPT !.app.showDashboard = TRUE]))
    /\ UNCHANGED clock

\* Click on btn-start (no question yet) or btn-next (completed): generateNext
ClickStartOrNext ==
    /\ ~app.showDashboard
    /\ app.asked = 0 \/ app.completed
    /\ app.asked < MaxAsked
    /\ stats.level <= MaxLevel
    /\ \E q \in AskedFor(app.selectedTopics, stats.level) :
           Handled("generateNext", generateNext(World, q, FALSE))
    /\ UNCHANGED clock

\* Click on btn-hint (disabled once the hint is shown)
ClickHint ==
    /\ InputShown
    /\ ~app.showHint
    /\ Handled("btn-hint", render([World EXCEPT !.app.showHint = TRUE]))
    /\ UNCHANGED clock

\* Click on btn-cheatsheet
ClickCheatsheet ==
    /\ InputShown
    /\ Handled("btn-cheatsheet", render([World EXCEPT !.app.showCheatsheet = TRUE]))
    /\ UNCHANGED clock

\* Click on btn-close-cheatsheet or on the overlay
CloseCheatsheet ==
    /\ app.showCheatsheet
    /\ RenderBounded
    /\ Handled("btn-close-cheatsheet", render([World EXCEPT !.app.showCheatsheet = FALSE]))
    /\ UNCHANGED clock

\* Click on btn-show-answer
ClickShowAnswer ==
    /\ ~app.showDashboard
    /\ app.completed
    /\ ~app.showAnswer
    /\ RenderBounded
    /\ Handled("btn-show-answer", render([World EXCEPT !.app.showAnswer = TRUE]))
    /\ UNCHANGED clock

\* selectedTopics after a click on the chip of the topic
ChipClicked(selectedTopics, topic) ==
    IF topic = "all" THEN [all |-> TRUE, topics |-> {}]
    ELSE IF selectedTopics.all THEN [all |-> FALSE, topics |-> {topic}]
    ELSE IF topic \in selectedTopics.topics
    THEN IF selectedTopics.topics = {topic} THEN [all |-> TRUE, topics |-> {}]
         ELSE [all |-> FALSE, topics |-> selectedTopics.topics \ {topic}]
    ELSE [all |-> FALSE, topics |-> selectedTopics.topics \cup {topic}]

\* Click on a topic chip (the chip of a locked topic is disabled)
ClickTopicChip ==
    /\ ~app.showDashboard
    /\ RenderBounded
    /\ \E topic \in ClickedChips \cap ({"all"} \cup getAvailableTopics(stats.level)) :
           Handled("topic-chip",
                   render([World EXCEPT
                              !.app.selectedTopics = ChipClicked(app.selectedTopics, topic)]))
    /\ UNCHANGED clock

\* Click on btn-reset-stats, confirmed
ClickResetStats ==
    /\ app.showDashboard
    /\ RenderBounded
    /\ Handled("btn-reset-stats", render([World EXCEPT !.stats = defaultStats]))
    /\ UNCHANGED clock

\* An input event on an answer field, the one shown or one a render has
\* taken out of the DOM: its listener calls evaluateLive(input.value)
InputEvent ==
    /\ app.asked > 0
    /\ app.completed \/ page.keyHandlers < MaxKeyHandlers
    /\ \E text \in InputTexts :
           Handled("input", evaluateLive(World, text, clock.ms, clock.day))
    /\ UNCHANGED clock

\* A keydown on document
KeyDown ==
    /\ page.keyHandlers > 0
    /\ app.asked + ShortcutCalls(page) <= MaxAsked
    /\ stats.level <= MaxLevel
    /\ \E key \in Keys,
          activeTag \in {"BODY", "BUTTON"}
                        \cup (IF InputShown
                              THEN {IF app.currentQuestion.isReadState THEN "INPUT"
                                    ELSE "TEXTAREA"}
                              ELSE {}),
          q \in AskedFor(app.selectedTopics, stats.level) :
           Handled("keydown", keydown(World, key, activeTag, q))
    /\ UNCHANGED clock

\* Time passes while an answer is being typed.
Tick ==
    /\ args.family = "ui"
    /\ app.timerStart # 0
    /\ ~app.completed
    /\ \E later \in ClockReadings :
           /\ later > clock.ms
           /\ clock' = [clock EXCEPT !.ms = later]
    /\ UNCHANGED <<pc, code, args, seeded, question, result, check, breakdown, pieces, stats,
                   answer, app, page, observed>>

NextUi ==
    \/ ClickNavPractice
    \/ ClickNavDashboard
    \/ ClickStartOrNext
    \/ ClickHint
    \/ ClickCheatsheet
    \/ CloseCheatsheet
    \/ ClickShowAnswer
    \/ ClickTopicChip
    \/ ClickResetStats
    \/ InputEvent
    \/ KeyDown
    \/ Tick

SpecUi == InitUi /\ [][NextUi]_vars

\* C25: the Enter/Space shortcut calls generateNext only while the current
\* question is completed: at most one keydown listener of the shortcut is on
\* document whatever the events were, none is left once generateNext has run
\* (none while a question is unanswered), and no key press replaces an
\* unanswered question.
C25_ShortcutOnlyWhenCompleted ==
    args.family = "ui" =>
        /\ page.keyHandlers <= 1
        /\ ~app.completed => page.keyHandlers = 0
        /\ observed.skipped = 0

\* For the current question: recordAnswer has been called once if a live
\* evaluation came out correct and not at all otherwise, no evaluation
\* followed the correct one, and the timer was started before the call.
RecordedOnce ==
    /\ observed.recorded = (IF observed.evaluatedCorrect > 0 THEN 1 ELSE 0)
    /\ observed.evaluatedCorrect <= 1
    /\ app.completed <=> observed.recorded = 1
    /\ app.completed => (app.timerStart # 0 /\ answer.solveTimeMs >= 0)

\* C27: for each generated question recordAnswer is called at most once, at
\* the first input event whose live evaluation is correct; from then until
\* generateNext an input event evaluates nothing and changes nothing; and the
\* timer start is set before the answer is recorded.
C27_RecordedOncePerQuestion ==
    /\ [](args.family = "ui" => RecordedOnce)
    /\ [][(args.family = "ui" /\ app.completed /\ pc' = "input")
            => UNCHANGED <<app, stats, answer, page, observed>>]_vars

\* An input event has reached a question that was completed and whose sample
\* answer had been asked for since.
C27_Witness ==
    /\ args.family = "ui"
    /\ pc = "input"
    /\ app.completed
    /\ app.showAnswer
    /\ observed.recorded = 1
    /\ app.timerStart # 0

(***************************************************************************)
(* The steps of a result as a history of the registers.                    *)
(***************************************************************************)

\* The steps before step i that are on the register of step i.
EarlierOn(steps, i) == {j \in 1..(i - 1) : steps[j].register = steps[i].register}

\* The steps on the register r.
StepsOn(steps, r) == {j \in DOMAIN steps : steps[j].register = r}

\* The greatest number of a non-empty set of numbers.
Latest(S) == CHOOSE j \in S : \A k \in S : k <= j

\* C29: in a result of evaluate, each step's before value is the after value
\* of the previous step on the same register, or the seeded value when there
\* is no such step, or 0 when there is no seeded value either; the returned
\* register state holds, for each register in the steps, the after value of
\* its last step, and for every other register its seeded value.
C29_StepsAreAHistory ==
    (pc = "evaluate" /\ args.family = "program") =>
        /\ \A i \in DOMAIN result.steps :
               result.steps[i].before =
                   (IF EarlierOn(result.steps, i) # {}
                    THEN result.steps[Latest(EarlierOn(result.steps, i))].after
                    ELSE IF result.steps[i].register \in DOMAIN seeded
                    THEN seeded[result.steps[i].register]
                    ELSE 0)
        /\ DOMAIN result.registerStates
               = DOMAIN seeded \cup {result.steps[i].register : i \in DOMAIN result.steps}
        /\ \A r \in DOMAIN result.registerStates :
               result.registerStates[r] =
                   (IF StepsOn(result.steps, r) # {}
                    THEN result.steps[Latest(StepsOn(result.steps, r))].after
                    ELSE seeded[r])

====
